---- MODULE Spec2Model ----
(***************************************************************************)
(* DocuGen MCP server (src/docugen_mcp_server.py): the credential          *)
(* lifecycle of GoogleSheetsClient.authenticate, the session's             *)
(* current-document slot, and the tool handlers layered on it.             *)
(*                                                                         *)
(* Every tool handler is an `async def` that never awaits, so a handler    *)
(* runs to completion on the event loop: one action per handler.  What a   *)
(* handler did is recorded in three log variables that the next handler    *)
(* overwrites: req (the arguments), calls (the remote calls it issued, in  *)
(* order, with the remote outcome of each) and result (what the caller     *)
(* gets back).                                                             *)
(*                                                                         *)
(* The remote spreadsheet service is the environment.  Its documents are   *)
(* tracked as far as name resolution needs them (the sheet list of each    *)
(* document); every remote call may also fail with an HttpError chosen by  *)
(* the environment.  Replies whose content is not tracked (named ranges,   *)
(* cell values) are inputs of the handler that reads them.                 *)
(*                                                                         *)
(* Arguments that a handler only copies into the request payload (colours, *)
(* row numbers, column letters, titles) are taken as well-formed and are   *)
(* not part of the state.                                                  *)
(***************************************************************************)
EXTENDS Integers, Sequences, FiniteSets

\* Number of documents created where creates follow one another (SpecRace).
MaxCreates == 2
\* Longest sheet list of a document that is followed.  The remote service
\* has no such limit: a step that would leave a document with more sheets
\* is not taken.
MaxSheets == 3

\* Python's None for string-valued slots and arguments.
None == "None"
\* Python's None for an Optional[int] sheet id.
NoSheet == -1

\* Identifiers the remote service hands out, in creation order.
IdNames == <<"d1", "d2", "d3", "d4">>
\* The documents the session creates: one, next to the shared view-only
\* document (creates that follow one another are the matter of SpecRace).
DocIds == {IdNames[1]}
\* Number of documents the session may create.
MaxDocs == Cardinality(DocIds)

\* Sheet titles used by callers and documents.
SheetNames == {"Sheet1", "Data"}

\* What a caller may pass as spreadsheet_id.
ExplicitIds == {None, "", "ext"} \cup DocIds

\* A1 ranges as token sequences; "!" separates the sheet prefix.
Ranges == {<<"Sheet1", "!", "A1:B2">>, <<"Data", "!", "A1:B2">>, <<"A1:B2">>}
\* metadata_create locations: a bare sheet name or a range.
Locations == {<<"Sheet1">>, <<"Data">>, <<"Data", "!", "A1:B2">>}

\* Values of the GOOGLE_OAUTH_PATH environment variable: unset, empty, a path
\* with no readable client-secret file, a path with one.
MissingSecrets == "/tmp/dummy_credentials.json"
OauthPaths == {None, "", MissingSecrets, "/home/u/credentials.json"}

\* Python truthiness of an Optional[str].
Falsy(x) == x = None \/ x = ""

\* Outcome the environment picks for one remote call ("ok" or an HTTP status).
Outcome == {"ok", "403"}

VARIABLES
    pc,                     \* where the process is: main, lifespan, auth steps, serving
    exit_status,            \* -1 while running, else the status of sys.exit
    oauthPath,              \* os.getenv('GOOGLE_OAUTH_PATH')
    tokenFile,              \* ~/.docugen/token.json
    creds,                  \* GoogleSheetsClient.creds
    sheets_service,         \* GoogleSheetsClient.sheets_service is built
    current_spreadsheet_id, \* GoogleSheetsClient.current_spreadsheet_id
    docs,                   \* remote documents: id -> [sheets]
    authLog,                \* steps authenticate has performed, in order
    req,                    \* arguments of the last handler
    calls,                  \* remote calls of the last handler, in order
    result                  \* what the last handler returned or raised

vars == <<pc, exit_status, oauthPath, tokenFile, creds, sheets_service,
          current_spreadsheet_id, docs, authLog, req, calls, result>>

authVars == <<pc, exit_status, oauthPath, tokenFile, creds, sheets_service, authLog>>
toolVars == <<current_spreadsheet_id, docs, req, calls, result>>

----------------------------------------------------------------------------
\* Credentials

\* A google.oauth2 Credentials object: valid = has a token and is not expired.
Token(v, e, r, o) ==
    [kind |-> "token", valid |-> v, expired |-> e, refresh_token |-> r, origin |-> o]

NoCreds == [kind |-> "none", valid |-> FALSE, expired |-> FALSE,
            refresh_token |-> FALSE, origin |-> "none"]
AbsentFile == [kind |-> "absent", valid |-> FALSE, expired |-> FALSE,
               refresh_token |-> FALSE, origin |-> "none"]
CorruptFile == [kind |-> "corrupt", valid |-> FALSE, expired |-> FALSE,
                refresh_token |-> FALSE, origin |-> "none"]

\* Token files a previous run (or a user) may have left behind.
TokenFiles ==
    {AbsentFile, CorruptFile} \cup
    ({Token(v, e, r, "file") : v \in BOOLEAN, e \in BOOLEAN, r \in BOOLEAN} \
     {Token(TRUE, TRUE, r, "file") : r \in BOOLEAN})

NoReq == [handler |-> "none", explicit |-> None, names |-> <<>>]
Ok(v) == [kind |-> "ok", detail |-> v]
ValueError(m) == [kind |-> "ValueError", detail |-> m]
HttpError(status) == [kind |-> "HttpError", detail |-> status]
AuthError(m) == [kind |-> "AuthError", detail |-> m]
NoResult == [kind |-> "none", detail |-> ""]

ConfigError == ValueError("GOOGLE_OAUTH_PATH environment variable not set")

AuthStep(s, ok) == [ok |-> ok, step |-> s]

\* GoogleSheetsClient.__init__ and the process before main/lifespan has run.
InitBoot ==
    /\ pc \in {"main", "lifespan"}
    /\ exit_status = -1
    /\ oauthPath \in OauthPaths
    /\ tokenFile \in TokenFiles
    /\ creds = NoCreds
    /\ sheets_service = FALSE
    /\ current_spreadsheet_id = None
    /\ docs = <<>>
    /\ authLog = <<>>
    /\ req = NoReq
    /\ calls = <<>>
    /\ result = NoResult

\* Variant: main prints the diagnostic and starts the server all the same.
mainWarnsOnly ==
    /\ pc = "main"
    /\ pc' = "lifespan"
    /\ IF Falsy(oauthPath)
         THEN result' = [kind |-> "stderr",
                         detail |-> "Error: GOOGLE_OAUTH_PATH environment variable not set"]
         ELSE UNCHANGED result
    /\ UNCHANGED <<exit_status, oauthPath, tokenFile, creds, sheets_service,
                   current_spreadsheet_id, docs, authLog, req, calls>>

\* main(): check the environment variable, then mcp.run() enters app_lifespan.
main ==
    /\ pc = "main"
    /\ IF Falsy(oauthPath)
         THEN /\ pc' = "exited"
              /\ exit_status' = 1
              /\ result' = [kind |-> "stderr",
                            detail |-> "Error: GOOGLE_OAUTH_PATH environment variable not set"]
         ELSE /\ pc' = "lifespan"
              /\ UNCHANGED <<exit_status, result>>
    /\ UNCHANGED <<oauthPath, tokenFile, creds, sheets_service,
                   current_spreadsheet_id, docs, authLog, req, calls>>

\* authenticate, lines 79-84: load the persisted token if the file exists.
authenticate_load ==
    /\ pc = "lifespan"
    /\ CASE tokenFile.kind = "absent" ->
              /\ pc' = "auth_acquire"
              /\ UNCHANGED <<creds, result>>
         [] tokenFile.kind = "corrupt" ->
              /\ pc' = "auth_failed"
              /\ result' = AuthError("token_file_unreadable")
              /\ UNCHANGED creds
         [] OTHER ->
              /\ pc' = "auth_acquire"
              /\ creds' = tokenFile
              /\ UNCHANGED result
    /\ authLog' = Append(authLog, AuthStep("load", tokenFile.kind = "token"))
    /\ UNCHANGED <<exit_status, oauthPath, tokenFile, sheets_service,
                   current_spreadsheet_id, docs, req, calls>>

\* Variants of the branch selection, each a slip the code could have made.
AcquireBranchEagerRefresh(c, path) ==
    IF c.kind # "none" /\ c.refresh_token THEN "refresh"
    ELSE IF ~(c.kind = "none" \/ ~c.valid) THEN "skip"
    ELSE IF Falsy(path) THEN "config_error"
    ELSE IF path = MissingSecrets THEN "secrets_error"
    ELSE "consent"

AcquireBranchIgnoresExpiry(c, path) ==
    IF ~(c.kind = "none" \/ ~c.valid) THEN "skip"
    ELSE IF c.kind # "none" /\ c.refresh_token THEN "refresh"
    ELSE IF Falsy(path) THEN "config_error"
    ELSE IF path = MissingSecrets THEN "secrets_error"
    ELSE "consent"

AcquireBranchPathFirst(c, path) ==
    IF Falsy(path) THEN "config_error"
    ELSE IF ~(c.kind = "none" \/ ~c.valid) THEN "skip"
    ELSE IF c.kind # "none" /\ c.expired /\ c.refresh_token THEN "refresh"
    ELSE IF path = MissingSecrets THEN "secrets_error"
    ELSE "consent"

\* The branch of lines 87-96 that authenticate takes for a loaded credential.
AcquireBranch(c, path) ==
    IF ~(c.kind = "none" \/ ~c.valid) THEN "skip"
    ELSE IF c.kind # "none" /\ c.expired /\ c.refresh_token THEN "refresh"
    ELSE IF Falsy(path) THEN "config_error"
    ELSE IF path = MissingSecrets THEN "secrets_error"
    ELSE "consent"

\* Variant: the save indented into the consent branch only.
SaveOnlyAfterConsent(branch) ==
    IF branch = "consent" THEN "auth_save" ELSE "auth_build"

\* Where authenticate goes after lines 87-96 succeeded: the save of lines
\* 98-100 sits inside the `if not self.creds or not self.creds.valid` block.
NextAfterAcquire(branch) ==
    IF branch = "skip" THEN "auth_build" ELSE "auth_save"

\* authenticate, lines 87-96: refresh in place, or run the consent flow.
authenticate_acquire ==
    /\ pc = "auth_acquire"
    /\ LET branch == AcquireBranch(creds, oauthPath) IN
       CASE branch = "skip" ->
              /\ pc' = NextAfterAcquire(branch)
              /\ UNCHANGED <<creds, authLog, result>>
         [] branch = "refresh" ->
              \E ok \in BOOLEAN :
                 /\ authLog' = Append(authLog, AuthStep("refresh", ok))
                 /\ IF ok
                      THEN /\ creds' = Token(TRUE, FALSE, TRUE, "refresh")
                           /\ pc' = NextAfterAcquire(branch)
                           /\ UNCHANGED result
                      ELSE /\ pc' = "auth_failed"
                           /\ result' = AuthError("refresh_failed")
                           /\ UNCHANGED creds
         [] branch = "config_error" ->
              /\ pc' = "auth_failed"
              /\ result' = ConfigError
              /\ UNCHANGED <<creds, authLog>>
         [] branch = "secrets_error" ->
              /\ pc' = "auth_failed"
              /\ result' = AuthError("client_secrets_unreadable")
              /\ UNCHANGED <<creds, authLog>>
         [] OTHER ->
              \E ok \in BOOLEAN, r \in BOOLEAN :
                 /\ authLog' = Append(authLog, AuthStep("consent", ok))
                 /\ IF ok
                      THEN /\ creds' = Token(TRUE, FALSE, r, "consent")
                           /\ pc' = NextAfterAcquire(branch)
                           /\ UNCHANGED result
                      ELSE /\ pc' = "auth_failed"
                           /\ result' = AuthError("consent_failed")
                           /\ UNCHANGED creds
    /\ UNCHANGED <<exit_status, oauthPath, tokenFile, sheets_service,
                   current_spreadsheet_id, docs, req, calls>>

\* authenticate, lines 98-100: write the credential to the token file.
authenticate_save ==
    /\ pc = "auth_save"
    /\ tokenFile' = creds
    /\ authLog' = Append(authLog, AuthStep("save", TRUE))
    /\ pc' = "auth_build"
    /\ UNCHANGED <<exit_status, oauthPath, creds, sheets_service,
                   current_spreadsheet_id, docs, req, calls, result>>

\* authenticate, lines 103-107, and the yield of app_lifespan.
authenticate_build ==
    /\ pc = "auth_build"
    /\ sheets_service' = TRUE
    /\ authLog' = Append(authLog, AuthStep("build", TRUE))
    /\ pc' = "serving"
    /\ UNCHANGED <<exit_status, oauthPath, tokenFile, creds,
                   current_spreadsheet_id, docs, req, calls, result>>

----------------------------------------------------------------------------
\* The remote service

\* A document shared with the session's user as view-only: reads succeed,
\* mutations are refused with 403.
ReadOnlyDoc == "ext"

Sheet(t, i) == [title |-> t, sheetId |-> i]
Request(k, i, t) == [kind |-> k, title |-> t, sheetId |-> i, targetSheetId |-> NoSheet]
Request2(k, i, j) == [kind |-> k, title |-> "", sheetId |-> i, targetSheetId |-> j]

Titles(sheets) == {sheets[i].title : i \in DOMAIN sheets}
SheetIds(sheets) == {sheets[i].sheetId : i \in DOMAIN sheets}

\* The id the service gives a new sheet: one no live sheet of the document has.
FreshSheetId(sheets) ==
    CHOOSE n \in 0..Len(sheets) :
        /\ n \notin SheetIds(sheets)
        /\ \A m \in 0..(n - 1) : m \in SheetIds(sheets)

\* Whether the service accepts one batchUpdate request on a sheet list: the
\* sheets a request names must be there, and the last sheet cannot be
\* deleted.  Titles are the caller's: the service is not taken to compare them.
ValidRequest(sheets, r) ==
    CASE r.kind = "duplicateSheet" -> r.sheetId \in SheetIds(sheets)
      [] r.kind = "deleteSheet" -> r.sheetId \in SheetIds(sheets) /\ Len(sheets) > 1
      [] r.kind = "values" -> r.title = "" \/ r.title \in Titles(sheets)
      [] OTHER ->
            /\ r.sheetId = NoSheet \/ r.sheetId \in SheetIds(sheets)
            /\ r.targetSheetId = NoSheet \/ r.targetSheetId \in SheetIds(sheets)

RECURSIVE Without(_, _)
Without(sheets, id) ==
    IF sheets = <<>> THEN <<>>
    ELSE IF Head(sheets).sheetId = id THEN Without(Tail(sheets), id)
    ELSE <<Head(sheets)>> \o Without(Tail(sheets), id)

\* The sheet list after the service applied one accepted request.
ApplyRequest(sheets, r) ==
    CASE r.kind \in {"addSheet", "duplicateSheet"} ->
            Append(sheets, Sheet(r.title, FreshSheetId(sheets)))
      [] r.kind = "deleteSheet" -> Without(sheets, r.sheetId)
      [] r.kind = "updateSheetProperties" /\ r.title # "" ->
            [i \in DOMAIN sheets |->
                IF sheets[i].sheetId = r.sheetId THEN Sheet(r.title, r.sheetId)
                ELSE sheets[i]]
      [] OTHER -> sheets

RECURSIVE ApplyAll(_, _)
ApplyAll(sheets, rs) ==
    IF rs = <<>> THEN sheets ELSE ApplyAll(ApplyRequest(sheets, Head(rs)), Tail(rs))

\* A batch is atomic: every request must be acceptable in turn.
RECURSIVE ValidBatch(_, _)
ValidBatch(sheets, rs) ==
    IF rs = <<>> THEN TRUE
    ELSE /\ ValidRequest(sheets, Head(rs))
         /\ ValidBatch(ApplyRequest(sheets, Head(rs)), Tail(rs))

\* The outcome of one remote call: f is the failure the environment injects.
RemoteOutcome(d, doc, mutating, rs, f) ==
    IF doc \notin DOMAIN d THEN "404"
    ELSE IF f # "ok" THEN f
    ELSE IF mutating /\ doc = ReadOnlyDoc THEN "403"
    ELSE IF ~ValidBatch(d[doc].sheets, rs) THEN "400"
    ELSE "ok"

Call(d, op, doc, mutating, rs, f) ==
    [doc |-> doc,
     mutating |-> mutating,
     op |-> op,
     requests |-> rs,
     outcome |-> RemoteOutcome(d, doc, mutating, rs, f)]

\* The documents after a call: changed only by a mutating call that succeeded.
After(d, c) ==
    IF c.mutating /\ c.outcome = "ok"
      THEN [d EXCEPT ![c.doc] = [sheets |-> ApplyAll(d[c.doc].sheets, c.requests)]]
      ELSE d

\* What the caller sees of one call: its value, or the HttpError it raised.
Raised(c) == IF c.outcome = "ok" THEN Ok("") ELSE HttpError(c.outcome)

----------------------------------------------------------------------------
\* Pieces shared by the handlers

\* Variant: the slot wins over the argument.
ResolvePreferCurrent(explicit, current) ==
    IF current # None THEN current ELSE explicit

\* Variant: `spreadsheet_id if spreadsheet_id is not None else current`,
\* which keeps an empty string.
ResolveUnlessNone(explicit, current) ==
    IF explicit # None THEN explicit ELSE current

\* `spreadsheet_id or client.current_spreadsheet_id`
ResolveDocumentId(explicit, current) ==
    IF ~Falsy(explicit) THEN explicit ELSE current

\* Variant: `if sheet_id == "":`, which lets None through.
MissingIdEmptyOnly(id) == id = ""

\* `if not sheet_id: raise ValueError(...)`
MissingId(id) == Falsy(id)

HasBang(r) == \E i \in DOMAIN r : r[i] = "!"

\* `r.split('!')[0]`
SplitHead(r) == IF r[1] = "!" THEN "" ELSE r[1]

\* `range.split('!')[0] if '!' in range else 'Sheet1'`
SheetOfRange(r) == IF HasBang(r) THEN SplitHead(r) ELSE "Sheet1"

\* `location.split('!')[0] if '!' in location else location`
SheetOfLocation(r) == IF HasBang(r) THEN SplitHead(r) ELSE r[1]

\* The sheet prefix the remote service reads from a range ("" when it has none).
PrefixOfRange(r) == IF HasBang(r) THEN SplitHead(r) ELSE ""

\* str.lower() on the titles in use.
Lower(t) ==
    CASE t = "Data" -> "data"
      [] t = "Sheet1" -> "sheet1"
      [] t = "Summary" -> "summary"
      [] OTHER -> t

\* Variant: the scan compares titles without regard to letter case.
RECURSIVE FirstWithTitleAnyCase(_, _)
FirstWithTitleAnyCase(sheets, name) ==
    IF sheets = <<>> THEN NoSheet
    ELSE IF Lower(Head(sheets).title) = Lower(name) THEN Head(sheets).sheetId
    ELSE FirstWithTitleAnyCase(Tail(sheets), name)

\* Variant: the scan returns the position of the sheet, not its sheetId.
RECURSIVE IndexWithTitle(_, _)
IndexWithTitle(sheets, name) ==
    IF sheets = <<>> THEN NoSheet
    ELSE IF Head(sheets).title = name THEN 0
    ELSE LET rest == IndexWithTitle(Tail(sheets), name)
         IN IF rest = NoSheet THEN NoSheet ELSE rest + 1

\* The scan of get_sheet_id_by_name: the id of the first sheet with the title.
RECURSIVE FirstWithTitle(_, _)
FirstWithTitle(sheets, name) ==
    IF sheets = <<>> THEN NoSheet
    ELSE IF Head(sheets).title = name THEN Head(sheets).sheetId
    ELSE FirstWithTitle(Tail(sheets), name)

\* Variant: the resolution reads the slot again instead of taking the
\* identifier its caller resolved.
get_sheet_id_by_nameOfSlot(d, doc, name, f) ==
    LET c == Call(d, "spreadsheets.get", current_spreadsheet_id, FALSE, <<>>, f) IN
    [call |-> c,
     value |-> IF c.outcome = "ok"
                 THEN FirstWithTitle(d[current_spreadsheet_id].sheets, name)
                 ELSE NoSheet]

\* GoogleSheetsClient.get_sheet_id_by_name: one metadata read, then the scan;
\* an HttpError of the read is logged and turned into None.
get_sheet_id_by_name(d, doc, name, f) ==
    LET c == Call(d, "spreadsheets.get", doc, FALSE, <<>>, f) IN
    [call |-> c,
     value |-> IF c.outcome = "ok" THEN FirstWithTitle(d[doc].sheets, name) ELSE NoSheet]

NoId == ValueError("No spreadsheet_id provided and no current spreadsheet set")
SheetNotFound == ValueError("Sheet not found")

\* Variant: handlers are served from process start, lifespan or not.
IdleUnguarded == req = NoReq

\* The server is serving and no handler's result is waiting to be delivered.
\* A handler takes its client from ctx.request_context.lifespan_context, which
\* exists once app_lifespan has yielded, after authenticate returned.
Idle == pc = "serving" /\ req = NoReq

\* A handler's step, taken when the server is idle: it logs what it was asked,
\* what it called and what it returned, and leaves the documents as its calls
\* left them.  Documents are followed up to MaxSheets sheets.
Handler(h, explicit, names, cs, res, d) ==
    /\ req' = [handler |-> h, explicit |-> explicit, names |-> names]
    /\ calls' = cs
    /\ result' = res
    /\ docs' = d
    /\ \A x \in DOMAIN d : Len(d[x].sheets) <= MaxSheets
    /\ UNCHANGED authVars

\* The session as app_lifespan hands it to the handlers: authenticated from a
\* valid persisted token, no current document, the remote service holding only
\* the view-only document.
Init ==
    /\ pc = "serving"
    /\ exit_status = -1
    /\ oauthPath = "/home/u/credentials.json"
    /\ tokenFile = Token(TRUE, FALSE, TRUE, "file")
    /\ creds = Token(TRUE, FALSE, TRUE, "file")
    /\ sheets_service = TRUE
    /\ current_spreadsheet_id = None
    /\ docs = [d \in {ReadOnlyDoc} |-> [sheets |-> <<Sheet("Sheet1", 0)>>]]
    /\ authLog = <<AuthStep("load", TRUE), AuthStep("build", TRUE)>>
    /\ req = NoReq
    /\ calls = <<>>
    /\ result = NoResult

\* Sheet lists a caller asks spreadsheet_create for.
CreateSheetLists == {<<"Sheet1">>, <<"Data">>, <<"Sheet1", "Data">>}

Created == DOMAIN docs \ {ReadOnlyDoc}

\* Variant: the slot is assigned only while it is unset (first create wins).
SetCurrentOnce(current, res) ==
    IF current = None /\ res.kind = "ok" THEN res.detail ELSE current

\* Variant: the slot is assigned from the response whether or not the call
\* succeeded (`result.get('spreadsheetId')` in a finally block).
SetCurrentAlways(current, res) == IF res.kind = "ok" THEN res.detail ELSE None

\* `client.current_spreadsheet_id = result['spreadsheetId']`, reached only
\* when execute() returned.
SetCurrent(current, res) == IF res.kind = "ok" THEN res.detail ELSE current

\* spreadsheet_create: one create call, then the slot is set.  The session
\* has room for `limit` documents (the remote service has no such limit).
Create(limit) ==
    \E names \in CreateSheetLists, f \in Outcome :
       LET newId == IdNames[Cardinality(Created) + 1]
           body  == [i \in DOMAIN names |-> Request("sheet", NoSheet, names[i])]
           c     == [doc |-> None,
                     mutating |-> TRUE,
                     op |-> "spreadsheets.create",
                     requests |-> body,
                     outcome |-> f]
           res   == IF f = "ok" THEN Ok(newId) ELSE HttpError(f)
           d     == IF f = "ok"
                      THEN [x \in DOMAIN docs \cup {newId} |->
                              IF x = newId
                                THEN [sheets |-> [i \in DOMAIN names |-> Sheet(names[i], i - 1)]]
                                ELSE docs[x]]
                      ELSE docs
       IN /\ Idle
          /\ f = "ok" => Cardinality(Created) < limit
          /\ Handler("spreadsheet_create", None, names, <<c>>, res, d)
          /\ current_spreadsheet_id' = SetCurrent(current_spreadsheet_id, res)

spreadsheet_create == Create(MaxDocs)

\* Handlers that resolve the document id and issue one call.
Direct(h, op, mutating, explicit, rs) ==
    LET id == ResolveDocumentId(explicit, current_spreadsheet_id) IN
    /\ Idle
    /\ UNCHANGED current_spreadsheet_id
    /\ IF MissingId(id)
         THEN Handler(h, explicit, <<>>, <<>>, NoId, docs)
         ELSE \E f \in Outcome :
                 LET c == Call(docs, op, id, mutating, rs, f) IN
                 Handler(h, explicit, <<>>, <<c>>, Raised(c), After(docs, c))

\* Titles another client of a document may give its sheets.
OtherTitles == SheetNames \cup {"Archive"}

\* One request another client may send for a sheet list.  The other clients
\* followed add a sheet only while the document has fewer sheets than they
\* have titles.
OtherRequests(sheets) ==
    {Request("updateSheetProperties", i, t) : i \in SheetIds(sheets), t \in OtherTitles}
    \cup {Request("deleteSheet", i, "") : i \in SheetIds(sheets)}
    \cup {Request("addSheet", NoSheet, t) :
             t \in IF Len(sheets) < Cardinality(OtherTitles) THEN OtherTitles ELSE {}}

\* The documents as the service may hold them when a handler's second call
\* arrives: as its first call saw them, or with a batch of one or two requests
\* of another client applied to a document of the session in between.
Interfered(d, doc) ==
    IF doc \notin DOMAIN d \/ doc = ReadOnlyDoc THEN {d}
    ELSE LET sheets  == d[doc].sheets
             batches == {<<r>> : r \in OtherRequests(sheets)} \cup
                        UNION {{<<r1, r2>> : r2 \in OtherRequests(ApplyRequest(sheets, r1))} :
                                 r1 \in OtherRequests(sheets)}
         IN {d} \cup {[d EXCEPT ![doc] = [sheets |-> ApplyAll(sheets, b)]] :
                        b \in {x \in batches : ValidBatch(sheets, x)}}

\* Handlers that resolve one sheet name and put its id in one batch request.
\* The metadata read and the batchUpdate are two remote calls; `shared` says
\* whether other clients write to the document between them.
ResolvedAt(h, explicit, name, kind, title, shared) ==
    LET id == ResolveDocumentId(explicit, current_spreadsheet_id) IN
    /\ Idle
    /\ UNCHANGED current_spreadsheet_id
    /\ IF MissingId(id)
         THEN Handler(h, explicit, <<name>>, <<>>, NoId, docs)
         ELSE \E f1 \in Outcome :
                 LET g == get_sheet_id_by_name(docs, id, name, f1) IN
                 IF g.value = NoSheet
                   THEN Handler(h, explicit, <<name>>, <<g.call>>, SheetNotFound, docs)
                   ELSE \E f2 \in Outcome,
                           d2 \in (IF shared THEN Interfered(docs, id) ELSE {docs}) :
                           LET c == Call(d2, "spreadsheets.batchUpdate", id, TRUE,
                                         <<Request(kind, g.value, title)>>, f2)
                           IN Handler(h, explicit, <<name>>, <<g.call, c>>,
                                      Raised(c), After(d2, c))

Resolved(h, explicit, name, kind, title) ==
    ResolvedAt(h, explicit, name, kind, title, FALSE)

\* Handlers that resolve a source and a target sheet before one batch request.
Resolved2(h, explicit, source, target, kind) ==
    LET id == ResolveDocumentId(explicit, current_spreadsheet_id) IN
    /\ Idle
    /\ UNCHANGED current_spreadsheet_id
    /\ IF MissingId(id)
         THEN Handler(h, explicit, <<source, target>>, <<>>, NoId, docs)
         ELSE \E f1 \in Outcome, f2 \in Outcome :
                 LET g1 == get_sheet_id_by_name(docs, id, source, f1)
                     g2 == get_sheet_id_by_name(docs, id, target, f2)
                 IN IF g1.value = NoSheet \/ g2.value = NoSheet
                      THEN Handler(h, explicit, <<source, target>>,
                                   <<g1.call, g2.call>>, SheetNotFound, docs)
                      ELSE \E f3 \in Outcome :
                              LET c == Call(docs, "spreadsheets.batchUpdate", id, TRUE,
                                            <<Request2(kind, g1.value, g2.value)>>, f3)
                              IN Handler(h, explicit, <<source, target>>,
                                         <<g1.call, g2.call, c>>, Raised(c), After(docs, c))

\* find_replace and metadata_create: the sheet id is added to the request only
\* `if sheet_id is not None`; the request is submitted either way.
Lenient(h, explicit, name, kind) ==
    LET id == ResolveDocumentId(explicit, current_spreadsheet_id) IN
    /\ Idle
    /\ UNCHANGED current_spreadsheet_id
    /\ IF MissingId(id)
         THEN Handler(h, explicit, <<name>>, <<>>, NoId, docs)
         ELSE \E f1 \in Outcome, f2 \in Outcome :
                 LET g == get_sheet_id_by_name(docs, id, name, f1)
                     c == Call(docs, "spreadsheets.batchUpdate", id, TRUE,
                               <<Request(kind, g.value, "")>>, f2)
                 IN Handler(h, explicit, <<name>>, <<g.call, c>>, Raised(c), After(docs, c))

\* spreadsheet_get_metadata: one spreadsheets.get call.
spreadsheet_get_metadata ==
    /\ Idle
    /\ \E e \in ExplicitIds :
       Direct("spreadsheet_get_metadata", "spreadsheets.get", FALSE, e, <<>>)

\* values_get: one values.get call on the caller's range.
values_get ==
    /\ Idle
    /\ \E e \in ExplicitIds, r \in Ranges :
       Direct("values_get", "values.get", FALSE, e, <<Request("values", NoSheet, PrefixOfRange(r))>>)

\* values_update: one values.update call on the caller's range.
values_update ==
    /\ Idle
    /\ \E e \in ExplicitIds, r \in Ranges :
       Direct("values_update", "values.update", TRUE, e, <<Request("values", NoSheet, PrefixOfRange(r))>>)

\* values_append: one values.append call on the caller's range.
values_append ==
    /\ Idle
    /\ \E e \in ExplicitIds, r \in Ranges :
       Direct("values_append", "values.append", TRUE, e, <<Request("values", NoSheet, PrefixOfRange(r))>>)

\* values_clear: one values.clear call on the caller's range.
values_clear ==
    /\ Idle
    /\ \E e \in ExplicitIds, r \in Ranges :
       Direct("values_clear", "values.clear", TRUE, e, <<Request("values", NoSheet, PrefixOfRange(r))>>)

\* values_batch_get: one values.batchGet call on the caller's range.
values_batch_get ==
    /\ Idle
    /\ \E e \in ExplicitIds, r \in Ranges :
       Direct("values_batch_get", "values.batchGet", FALSE, e, <<Request("values", NoSheet, PrefixOfRange(r))>>)

\* values_batch_update: one values.batchUpdate call on the caller's range.
values_batch_update ==
    /\ Idle
    /\ \E e \in ExplicitIds, r \in Ranges :
       Direct("values_batch_update", "values.batchUpdate", TRUE, e, <<Request("values", NoSheet, PrefixOfRange(r))>>)

\* protection_remove: one batch with a deleteProtectedRange request for the given id.
protection_remove ==
    /\ Idle
    /\ \E e \in ExplicitIds :
       Direct("protection_remove", "spreadsheets.batchUpdate", TRUE, e, <<Request("deleteProtectedRange", NoSheet, "")>>)

\* metadata_search: one developerMetadata.search call.
metadata_search ==
    /\ Idle
    /\ \E e \in ExplicitIds :
       Direct("metadata_search", "developerMetadata.search", FALSE, e, <<>>)

\* banded_range_remove: one batch with a deleteBanding request for the given id.
banded_range_remove ==
    /\ Idle
    /\ \E e \in ExplicitIds :
       Direct("banded_range_remove", "spreadsheets.batchUpdate", TRUE, e, <<Request("deleteBanding", NoSheet, "")>>)

\* formula_add: one values.update call on the caller's range.
formula_add ==
    /\ Idle
    /\ \E e \in ExplicitIds, r \in Ranges :
       Direct("formula_add", "values.update", TRUE, e, <<Request("values", NoSheet, PrefixOfRange(r))>>)

\* formula_array_add: one values.update call on the caller's range.
formula_array_add ==
    /\ Idle
    /\ \E e \in ExplicitIds, r \in Ranges :
       Direct("formula_array_add", "values.update", TRUE, e, <<Request("values", NoSheet, PrefixOfRange(r))>>)

\* hyperlink_add: one values.update call on the caller's range.
hyperlink_add ==
    /\ Idle
    /\ \E e \in ExplicitIds, r \in Ranges :
       Direct("hyperlink_add", "values.update", TRUE, e, <<Request("values", NoSheet, PrefixOfRange(r))>>)

\* data_export_csv: one values.get call on the caller's range.
data_export_csv ==
    /\ Idle
    /\ \E e \in ExplicitIds, r \in Ranges :
       Direct("data_export_csv", "values.get", FALSE, e, <<Request("values", NoSheet, PrefixOfRange(r))>>)

\* sheet_delete: resolves sheet_name, then one deleteSheet request.
sheet_delete ==
    /\ Idle
    /\ \E e \in ExplicitIds, n \in SheetNames :
       Resolved("sheet_delete", e, n, "deleteSheet", "")

\* format_cells: resolves the range's sheet prefix, then one repeatCell request.
format_cells ==
    /\ Idle
    /\ \E e \in ExplicitIds, r \in Ranges :
       Resolved("format_cells", e, SheetOfRange(r), "repeatCell", "")

\* chart_create: resolves the range's sheet prefix, then one addChart request.
chart_create ==
    /\ Idle
    /\ \E e \in ExplicitIds, r \in Ranges :
       Resolved("chart_create", e, SheetOfRange(r), "addChart", "")

\* rows_insert: resolves sheet_name, then one insertDimension request.
rows_insert ==
    /\ Idle
    /\ \E e \in ExplicitIds, n \in SheetNames :
       Resolved("rows_insert", e, n, "insertDimension", "")

\* columns_insert: resolves sheet_name, then one insertDimension request.
columns_insert ==
    /\ Idle
    /\ \E e \in ExplicitIds, n \in SheetNames :
       Resolved("columns_insert", e, n, "insertDimension", "")

\* filter_apply: resolves sheet_name, then one setBasicFilter request.
filter_apply ==
    /\ Idle
    /\ \E e \in ExplicitIds, n \in SheetNames :
       Resolved("filter_apply", e, n, "setBasicFilter", "")

\* filter_clear: resolves sheet_name, then one clearBasicFilter request.
filter_clear ==
    /\ Idle
    /\ \E e \in ExplicitIds, n \in SheetNames :
       Resolved("filter_clear", e, n, "clearBasicFilter", "")

\* conditional_format_add: resolves the range's sheet prefix, then one addConditionalFormatRule request.
conditional_format_add ==
    /\ Idle
    /\ \E e \in ExplicitIds, r \in Ranges :
       Resolved("conditional_format_add", e, SheetOfRange(r), "addConditionalFormatRule", "")

\* validation_add: resolves the range's sheet prefix, then one setDataValidation request.
validation_add ==
    /\ Idle
    /\ \E e \in ExplicitIds, r \in Ranges :
       Resolved("validation_add", e, SheetOfRange(r), "setDataValidation", "")

\* validation_clear: resolves the range's sheet prefix, then one setDataValidation request.
validation_clear ==
    /\ Idle
    /\ \E e \in ExplicitIds, r \in Ranges :
       Resolved("validation_clear", e, SheetOfRange(r), "setDataValidation", "")

\* named_range_add: resolves the range's sheet prefix, then one addNamedRange request.
named_range_add ==
    /\ Idle
    /\ \E e \in ExplicitIds, r \in Ranges :
       Resolved("named_range_add", e, SheetOfRange(r), "addNamedRange", "")

\* protection_add: resolves the range's sheet prefix, then one addProtectedRange request.
protection_add ==
    /\ Idle
    /\ \E e \in ExplicitIds, r \in Ranges :
       Resolved("protection_add", e, SheetOfRange(r), "addProtectedRange", "")

\* cells_merge: resolves the range's sheet prefix, then one mergeCells request.
cells_merge ==
    /\ Idle
    /\ \E e \in ExplicitIds, r \in Ranges :
       Resolved("cells_merge", e, SheetOfRange(r), "mergeCells", "")

\* cells_unmerge: resolves the range's sheet prefix, then one unmergeCells request.
cells_unmerge ==
    /\ Idle
    /\ \E e \in ExplicitIds, r \in Ranges :
       Resolved("cells_unmerge", e, SheetOfRange(r), "unmergeCells", "")

\* borders_update: resolves the range's sheet prefix, then one updateBorders request.
borders_update ==
    /\ Idle
    /\ \E e \in ExplicitIds, r \in Ranges :
       Resolved("borders_update", e, SheetOfRange(r), "updateBorders", "")

\* range_sort: resolves the range's sheet prefix, then one sortRange request.
range_sort ==
    /\ Idle
    /\ \E e \in ExplicitIds, r \in Ranges :
       Resolved("range_sort", e, SheetOfRange(r), "sortRange", "")

\* banded_range_add: resolves the range's sheet prefix, then one addBanding request.
banded_range_add ==
    /\ Idle
    /\ \E e \in ExplicitIds, r \in Ranges :
       Resolved("banded_range_add", e, SheetOfRange(r), "addBanding", "")

\* What a caller may pass as the cell of a note: a range or one cell.
CellArguments == Ranges \cup {<<"Sheet1", "!", "A1">>, <<"Data", "!", "A1">>, <<"A1">>}

\* `cell.split('!')[-1] if '!' in cell else cell`
CellRefOf(r) == r[Len(r)]

\* `cell_ref[1:]` on the references in use.
RowText(ref) ==
    CASE ref = "A1" -> "1"
      [] ref = "A1:B2" -> "1:B2"

\* Whether int() accepts the text.
IntLiteral(t) == t = "1"

\* The ValueError int() raises for a text that is no integer literal.
InvalidLiteral(t) ==
    CASE t = "1:B2" -> ValueError("invalid literal for int() with base 10: '1:B2'")
      [] OTHER -> ValueError("invalid literal for int() with base 10")

\* note_add and note_clear: the sheet of the cell's prefix is resolved, then
\* the cell reference is parsed (column letter, row number), then one
\* updateCells request is submitted.
Noted(h, explicit, cell) ==
    LET id   == ResolveDocumentId(explicit, current_spreadsheet_id)
        name == SheetOfRange(cell)
    IN
    /\ Idle
    /\ UNCHANGED current_spreadsheet_id
    /\ IF MissingId(id)
         THEN Handler(h, explicit, <<name>>, <<>>, NoId, docs)
         ELSE \E f1 \in Outcome :
                 LET g == get_sheet_id_by_name(docs, id, name, f1) IN
                 IF g.value = NoSheet
                   THEN Handler(h, explicit, <<name>>, <<g.call>>, SheetNotFound, docs)
                 ELSE IF ~IntLiteral(RowText(CellRefOf(cell)))
                   THEN Handler(h, explicit, <<name>>, <<g.call>>,
                                InvalidLiteral(RowText(CellRefOf(cell))), docs)
                 ELSE \E f2 \in Outcome :
                         LET c == Call(docs, "spreadsheets.batchUpdate", id, TRUE,
                                       <<Request("updateCells", g.value, "")>>, f2)
                         IN Handler(h, explicit, <<name>>, <<g.call, c>>,
                                    Raised(c), After(docs, c))

\* note_add: a range as cell fails in int() after the sheet was resolved.
note_add ==
    /\ Idle
    /\ \E e \in ExplicitIds, r \in CellArguments :
       Noted("note_add", e, r)

\* note_clear: as note_add.
note_clear ==
    /\ Idle
    /\ \E e \in ExplicitIds, r \in CellArguments :
       Noted("note_clear", e, r)

\* sheet_hide: resolves sheet_name, then one updateSheetProperties request.
sheet_hide ==
    /\ Idle
    /\ \E e \in ExplicitIds, n \in SheetNames :
       Resolved("sheet_hide", e, n, "updateSheetProperties", "")

\* sheet_move: resolves sheet_name, then one updateSheetProperties request.
sheet_move ==
    /\ Idle
    /\ \E e \in ExplicitIds, n \in SheetNames :
       Resolved("sheet_move", e, n, "updateSheetProperties", "")

\* freeze_rows: resolves sheet_name, then one updateSheetProperties request.
freeze_rows ==
    /\ Idle
    /\ \E e \in ExplicitIds, n \in SheetNames :
       Resolved("freeze_rows", e, n, "updateSheetProperties", "")

\* freeze_columns: resolves sheet_name, then one updateSheetProperties request.
freeze_columns ==
    /\ Idle
    /\ \E e \in ExplicitIds, n \in SheetNames :
       Resolved("freeze_columns", e, n, "updateSheetProperties", "")

\* rows_hide: resolves sheet_name, then one updateDimensionProperties request.
rows_hide ==
    /\ Idle
    /\ \E e \in ExplicitIds, n \in SheetNames :
       Resolved("rows_hide", e, n, "updateDimensionProperties", "")

\* rows_unhide: resolves sheet_name, then one updateDimensionProperties request.
rows_unhide ==
    /\ Idle
    /\ \E e \in ExplicitIds, n \in SheetNames :
       Resolved("rows_unhide", e, n, "updateDimensionProperties", "")

\* columns_hide: resolves sheet_name, then one updateDimensionProperties request.
columns_hide ==
    /\ Idle
    /\ \E e \in ExplicitIds, n \in SheetNames :
       Resolved("columns_hide", e, n, "updateDimensionProperties", "")

\* columns_unhide: resolves sheet_name, then one updateDimensionProperties request.
columns_unhide ==
    /\ Idle
    /\ \E e \in ExplicitIds, n \in SheetNames :
       Resolved("columns_unhide", e, n, "updateDimensionProperties", "")

\* row_resize: resolves sheet_name, then one updateDimensionProperties request.
row_resize ==
    /\ Idle
    /\ \E e \in ExplicitIds, n \in SheetNames :
       Resolved("row_resize", e, n, "updateDimensionProperties", "")

\* column_resize: resolves sheet_name, then one updateDimensionProperties request.
column_resize ==
    /\ Idle
    /\ \E e \in ExplicitIds, n \in SheetNames :
       Resolved("column_resize", e, n, "updateDimensionProperties", "")

\* columns_autofit: resolves sheet_name, then one autoResizeDimensions request.
columns_autofit ==
    /\ Idle
    /\ \E e \in ExplicitIds, n \in SheetNames :
       Resolved("columns_autofit", e, n, "autoResizeDimensions", "")

\* rows_group: resolves sheet_name, then one addDimensionGroup request.
rows_group ==
    /\ Idle
    /\ \E e \in ExplicitIds, n \in SheetNames :
       Resolved("rows_group", e, n, "addDimensionGroup", "")

\* columns_group: resolves sheet_name, then one addDimensionGroup request.
columns_group ==
    /\ Idle
    /\ \E e \in ExplicitIds, n \in SheetNames :
       Resolved("columns_group", e, n, "addDimensionGroup", "")

\* text_rotate: resolves the range's sheet prefix, then one repeatCell request.
text_rotate ==
    /\ Idle
    /\ \E e \in ExplicitIds, r \in Ranges :
       Resolved("text_rotate", e, SheetOfRange(r), "repeatCell", "")

\* text_wrap: resolves the range's sheet prefix, then one repeatCell request.
text_wrap ==
    /\ Idle
    /\ \E e \in ExplicitIds, r \in Ranges :
       Resolved("text_wrap", e, SheetOfRange(r), "repeatCell", "")

\* sheet_add: one addSheet request, no name resolution.
sheet_add ==
    /\ Idle
    /\ \E e \in ExplicitIds, t \in SheetNames :
       Direct("sheet_add", "spreadsheets.batchUpdate", TRUE, e,
              <<Request("addSheet", NoSheet, t)>>)

\* sheet_duplicate: resolves source_sheet_name, then one duplicateSheet request.
sheet_duplicate ==
    /\ Idle
    /\ \E e \in ExplicitIds, n \in SheetNames, t \in SheetNames :
       Resolved("sheet_duplicate", e, n, "duplicateSheet", t)

\* sheet_rename: resolves old_name, then updateSheetProperties with the new title.
sheet_rename ==
    /\ Idle
    /\ \E e \in ExplicitIds, n \in SheetNames, t \in SheetNames :
       Resolved("sheet_rename", e, n, "updateSheetProperties", t)

\* pivot_table_create: source sheet from the range prefix, target sheet by name.
pivot_table_create ==
    /\ Idle
    /\ \E e \in ExplicitIds, r \in Ranges, n \in SheetNames :
       Resolved2("pivot_table_create", e, SheetOfRange(r), n, "updateCells")

\* range_copy_paste: source and target sheets from the two range prefixes.
range_copy_paste ==
    /\ Idle
    /\ \E e \in ExplicitIds, r1 \in Ranges, r2 \in Ranges :
       Resolved2("range_copy_paste", e, SheetOfRange(r1), SheetOfRange(r2), "copyPaste")

\* range_cut_paste: source and target sheets from the two range prefixes.
range_cut_paste ==
    /\ Idle
    /\ \E e \in ExplicitIds, r1 \in Ranges, r2 \in Ranges :
       Resolved2("range_cut_paste", e, SheetOfRange(r1), SheetOfRange(r2), "cutPaste")

\* find_replace: resolves sheet_name only `if sheet_name`; the findReplace
\* request is submitted whether or not a sheet id was found.
find_replace ==
    /\ Idle
    /\ \E e \in ExplicitIds, n \in SheetNames \cup {None} :
       IF Falsy(n)
         THEN Direct("find_replace", "spreadsheets.batchUpdate", TRUE, e,
                     <<Request("findReplace", NoSheet, "")>>)
         ELSE Lenient("find_replace", e, n, "findReplace")

\* metadata_create: resolves the location's sheet; createDeveloperMetadata is
\* submitted whether or not a sheet id was found.
metadata_create ==
    /\ Idle
    /\ \E e \in ExplicitIds, l \in Locations :
       Lenient("metadata_create", e, SheetOfLocation(l), "createDeveloperMetadata")

\* What spreadsheets.get returns for each sheet under a `fields` mask: the
\* service sends only the selected fields, so a 'sheets.conditionalFormats'
\* read carries no 'properties'.
MaskHasProperties(fields) == fields \in {"", "properties,sheets,namedRanges"}

KeyError(k) == [kind |-> "KeyError", detail |-> k]

\* conditional_format_clear: a masked metadata read, the name resolution, then
\* the loop over the masked reply, whose first entry is asked for
\* sheet['properties'].
conditional_format_clear ==
    /\ Idle
    /\ \E e \in ExplicitIds, n \in SheetNames :
       LET id == ResolveDocumentId(e, current_spreadsheet_id)
           h  == "conditional_format_clear"
       IN
       /\ Idle
       /\ UNCHANGED current_spreadsheet_id
       /\ IF MissingId(id)
            THEN Handler(h, e, <<n>>, <<>>, NoId, docs)
            ELSE \E f1 \in Outcome :
                    LET c1 == Call(docs, "spreadsheets.get", id, FALSE, <<>>, f1) IN
                    IF c1.outcome # "ok"
                      THEN Handler(h, e, <<n>>, <<c1>>, Raised(c1), docs)
                      ELSE \E f2 \in Outcome :
                              LET g == get_sheet_id_by_name(docs, id, n, f2) IN
                              IF g.value = NoSheet
                                THEN Handler(h, e, <<n>>, <<c1, g.call>>, SheetNotFound, docs)
                                ELSE IF docs[id].sheets # <<>>
                                        /\ ~MaskHasProperties("sheets.conditionalFormats")
                                  THEN Handler(h, e, <<n>>, <<c1, g.call>>,
                                               KeyError("properties"), docs)
                                  ELSE Handler(h, e, <<n>>, <<c1, g.call>>, Ok(""), docs)

\* named_range_delete: a metadata read of the named ranges (their content is
\* the environment's: found or not), then one deleteNamedRange request.
named_range_delete ==
    /\ Idle
    /\ \E e \in ExplicitIds :
       LET id == ResolveDocumentId(e, current_spreadsheet_id)
           h  == "named_range_delete"
       IN
       /\ Idle
       /\ UNCHANGED current_spreadsheet_id
       /\ IF MissingId(id)
            THEN Handler(h, e, <<>>, <<>>, NoId, docs)
            ELSE \E f1 \in Outcome :
                    LET c1 == Call(docs, "spreadsheets.get", id, FALSE, <<>>, f1) IN
                    IF c1.outcome # "ok"
                      THEN Handler(h, e, <<>>, <<c1>>, Raised(c1), docs)
                      ELSE \E found \in BOOLEAN :
                              IF ~found
                                THEN Handler(h, e, <<>>, <<c1>>,
                                             ValueError("Named range not found"), docs)
                                ELSE \E f2 \in Outcome :
                                        LET c2 == Call(docs, "spreadsheets.batchUpdate", id, TRUE,
                                                       <<Request("deleteNamedRange", NoSheet, "")>>, f2)
                                        IN Handler(h, e, <<>>, <<c1, c2>>, Raised(c2), After(docs, c2))

\* sheet_unhide: its own unguarded metadata read and scan, then one request.
sheet_unhide ==
    /\ Idle
    /\ \E e \in ExplicitIds, n \in SheetNames :
       LET id == ResolveDocumentId(e, current_spreadsheet_id)
           h  == "sheet_unhide"
       IN
       /\ Idle
       /\ UNCHANGED current_spreadsheet_id
       /\ IF MissingId(id)
            THEN Handler(h, e, <<n>>, <<>>, NoId, docs)
            ELSE \E f1 \in Outcome :
                    LET c1 == Call(docs, "spreadsheets.get", id, FALSE, <<>>, f1) IN
                    IF c1.outcome # "ok"
                      THEN Handler(h, e, <<n>>, <<c1>>, Raised(c1), docs)
                      ELSE LET sid == FirstWithTitle(docs[id].sheets, n) IN
                           IF sid = NoSheet
                             THEN Handler(h, e, <<n>>, <<c1>>, SheetNotFound, docs)
                             ELSE \E f2 \in Outcome :
                                     LET c2 == Call(docs, "spreadsheets.batchUpdate", id, TRUE,
                                                    <<Request("updateSheetProperties", sid, "")>>, f2)
                                     IN Handler(h, e, <<n>>, <<c1, c2>>, Raised(c2), After(docs, c2))

\* csv_import: resolution and addSheet inside `try: ... except: pass`, then the
\* values write to '<sheet_name>!A1', whose outcome is the handler's.
csv_import ==
    /\ Idle
    /\ \E e \in ExplicitIds, n \in SheetNames :
       LET id == ResolveDocumentId(e, current_spreadsheet_id)
           h  == "csv_import"
       IN
       /\ Idle
       /\ UNCHANGED current_spreadsheet_id
       /\ IF MissingId(id)
            THEN Handler(h, e, <<n>>, <<>>, NoId, docs)
            ELSE \E f1 \in Outcome, f3 \in Outcome :
                    LET g == get_sheet_id_by_name(docs, id, n, f1) IN
                    IF g.value = NoSheet
                      THEN \E f2 \in Outcome :
                              LET c2 == Call(docs, "spreadsheets.batchUpdate", id, TRUE,
                                             <<Request("addSheet", NoSheet, n)>>, f2)
                                  d2 == After(docs, c2)
                                  c3 == Call(d2, "values.update", id, TRUE,
                                             <<Request("values", NoSheet, n)>>, f3)
                              IN Handler(h, e, <<n>>, <<g.call, c2, c3>>, Raised(c3), After(d2, c3))
                      ELSE LET c3 == Call(docs, "values.update", id, TRUE,
                                          <<Request("values", NoSheet, n)>>, f3)
                           IN Handler(h, e, <<n>>, <<g.call, c3>>, Raised(c3), After(docs, c3))

\* range_duplicate: a values read of the source, and a values write of the
\* target when the read returned any rows (their content is the environment's).
range_duplicate ==
    /\ Idle
    /\ \E e \in ExplicitIds, r1 \in Ranges, r2 \in Ranges :
       LET id == ResolveDocumentId(e, current_spreadsheet_id)
           h  == "range_duplicate"
       IN
       /\ Idle
       /\ UNCHANGED current_spreadsheet_id
       /\ IF MissingId(id)
            THEN Handler(h, e, <<>>, <<>>, NoId, docs)
            ELSE \E f1 \in Outcome :
                    LET c1 == Call(docs, "values.get", id, FALSE,
                                   <<Request("values", NoSheet, PrefixOfRange(r1))>>, f1)
                    IN IF c1.outcome # "ok"
                         THEN Handler(h, e, <<>>, <<c1>>, Raised(c1), docs)
                         ELSE \E empty \in BOOLEAN :
                                 IF empty
                                   THEN Handler(h, e, <<>>, <<c1>>, Ok(""), docs)
                                   ELSE \E f2 \in Outcome :
                                           LET c2 == Call(docs, "values.update", id, TRUE,
                                                          <<Request("values", NoSheet, PrefixOfRange(r2))>>, f2)
                                           IN Handler(h, e, <<>>, <<c1, c2>>, Raised(c2), After(docs, c2))

\* The server loop hands the handler's result (or error) to the caller and is
\* idle again; the session is kept.
respond ==
    /\ pc = "serving"
    /\ req # NoReq
    /\ req' = NoReq
    /\ calls' = <<>>
    /\ result' = NoResult
    /\ UNCHANGED <<current_spreadsheet_id, docs>>
    /\ UNCHANGED authVars

\* The handlers the server dispatches once it is serving.
Next ==
    \/ respond
    \/ spreadsheet_create
    \/ spreadsheet_get_metadata
    \/ values_get
    \/ values_update
    \/ values_append
    \/ values_clear
    \/ values_batch_get
    \/ values_batch_update
    \/ protection_remove
    \/ metadata_search
    \/ banded_range_remove
    \/ formula_add
    \/ formula_array_add
    \/ hyperlink_add
    \/ data_export_csv
    \/ sheet_delete
    \/ format_cells
    \/ chart_create
    \/ rows_insert
    \/ columns_insert
    \/ filter_apply
    \/ filter_clear
    \/ conditional_format_add
    \/ validation_add
    \/ validation_clear
    \/ named_range_add
    \/ protection_add
    \/ cells_merge
    \/ cells_unmerge
    \/ borders_update
    \/ range_sort
    \/ banded_range_add
    \/ note_add
    \/ note_clear
    \/ sheet_hide
    \/ sheet_move
    \/ freeze_rows
    \/ freeze_columns
    \/ rows_hide
    \/ rows_unhide
    \/ columns_hide
    \/ columns_unhide
    \/ row_resize
    \/ column_resize
    \/ columns_autofit
    \/ rows_group
    \/ columns_group
    \/ text_rotate
    \/ text_wrap
    \/ sheet_add
    \/ sheet_duplicate
    \/ sheet_rename
    \/ pivot_table_create
    \/ range_copy_paste
    \/ range_cut_paste
    \/ find_replace
    \/ metadata_create
    \/ conditional_format_clear
    \/ named_range_delete
    \/ sheet_unhide
    \/ csv_import
    \/ range_duplicate

Spec == Init /\ [][Next]_vars

----------------------------------------------------------------------------
\* Startup

NextAuth ==
    \/ main
    \/ authenticate_load
    \/ authenticate_acquire
    \/ authenticate_save
    \/ authenticate_build

SpecAuth == InitBoot /\ [][NextAuth]_vars

----------------------------------------------------------------------------
\* The whole server: startup, then the handlers.  One handler of every shape
\* (spreadsheet_create, one-call read, one-call mutation, one and two resolved
\* names, the lenient resolution) and every handler written out on its own.

NextServer ==
    \/ NextAuth
    \/ respond
    \/ spreadsheet_create
    \/ values_get
    \/ sheet_add
    \/ sheet_delete
    \/ range_copy_paste
    \/ find_replace
    \/ conditional_format_clear
    \/ named_range_delete
    \/ sheet_unhide
    \/ csv_import
    \/ range_duplicate

SpecServer == InitBoot /\ [][NextServer]_vars

----------------------------------------------------------------------------
\* Properties of the tool handlers (specification Spec)

IsTool(r) == r.handler \notin {"none", "spreadsheet_create"}

Mutating(cs) == {i \in DOMAIN cs : cs[i].mutating}

\* C1: a tool other than spreadsheet_create that is given no spreadsheet_id
\* while the slot is unset raises the local "no spreadsheet" error and issues
\* no remote call at all.
C1_NoIdFailsLocally ==
    [][ (IsTool(req') /\ req'.explicit = None /\ current_spreadsheet_id = None)
            => (result' = NoId /\ calls' = <<>>) ]_vars

C1_Witness ==
    /\ IsTool(req)
    /\ req.explicit = None
    /\ current_spreadsheet_id = None
    /\ result = NoId
    /\ calls = <<>>

\* The tools that look a sheet up by name before building their request
\* (csv_import is left out: it creates the sheet it does not find).
ResolvesName(r) ==
    /\ IsTool(r)
    /\ r.handler # "csv_import"
    /\ r.names # <<>>

\* C2: when a tool references a sheet by a name (or range prefix) that is not
\* in the live sheet list of the target spreadsheet (its reads having
\* succeeded), it raises the not-found error and submits no mutating call.
C2_AbsentNameNoMutation ==
    [][ LET target == ResolveDocumentId(req'.explicit, current_spreadsheet_id)
        IN  (/\ ResolvesName(req')
             /\ target \in DOMAIN docs
             /\ \A i \in DOMAIN calls' \ Mutating(calls') : calls'[i].outcome = "ok"
             /\ \E k \in DOMAIN req'.names : req'.names[k] \notin Titles(docs[target].sheets))
                => (result' = SheetNotFound /\ Mutating(calls') = {}) ]_vars

\* C3: the slot changes only in a spreadsheet_create whose create call
\* succeeded, and then to the id that call returned; a failed create and every
\* other tool leave it as it was.
C3_SlotWrittenOnlyByCreate ==
    [][ /\ current_spreadsheet_id' # current_spreadsheet_id
            => /\ req'.handler = "spreadsheet_create"
               /\ result'.kind = "ok"
               /\ Len(calls') = 1
               /\ calls'[1].op = "spreadsheets.create"
               /\ calls'[1].outcome = "ok"
               /\ current_spreadsheet_id' = result'.detail
               /\ current_spreadsheet_id' \in DOMAIN docs' \ DOMAIN docs
        /\ (req'.handler = "spreadsheet_create" /\ result'.kind = "ok")
            => current_spreadsheet_id' = result'.detail ]_vars

C3_Witness ==
    /\ req.handler = "spreadsheet_create"
    /\ result.kind = "HttpError"
    /\ current_spreadsheet_id \in Created

\* C4: a tool given a spreadsheet_id (a non-empty string) sends every remote
\* call to that id and leaves the slot unchanged; given none, with the slot
\* set, it sends every remote call to the slot's id.
C4_ExplicitIdWins ==
    [][ IsTool(req')
            => /\ ~Falsy(req'.explicit)
                    => /\ \A i \in DOMAIN calls' : calls'[i].doc = req'.explicit
                       /\ current_spreadsheet_id' = current_spreadsheet_id
               /\ (Falsy(req'.explicit) /\ current_spreadsheet_id # None)
                    => \A i \in DOMAIN calls' :
                            calls'[i].doc = current_spreadsheet_id ]_vars

C4_Witness ==
    /\ IsTool(req)
    /\ req.explicit = ReadOnlyDoc
    /\ current_spreadsheet_id \in Created
    /\ Len(calls) >= 2
    /\ \A i \in DOMAIN calls : calls[i].doc = ReadOnlyDoc

\* The one remote failure the specification says is suppressed: the sheet
\* creation inside csv_import.
SuppressedCall(r, c) ==
    /\ r.handler = "csv_import"
    /\ c.op = "spreadsheets.batchUpdate"

\* C5: every remote call that fails reaches the caller as that failure; only
\* the sheet-creation call of csv_import may fail silently.
C5_RemoteErrorsSurface ==
    \A i \in DOMAIN calls :
        (calls[i].outcome # "ok" /\ ~SuppressedCall(req, calls[i]))
            => result = HttpError(calls[i].outcome)

\* C6: no tool issues two separate mutating remote calls.
C6_OneMutatingCall ==
    Cardinality(Mutating(calls)) <= 1

----------------------------------------------------------------------------
\* Properties of startup (specification SpecAuth)

Ran(s) == \E i \in DOMAIN authLog : authLog[i].step = s

Succeeded(s) == \E i \in DOMAIN authLog : authLog[i] = AuthStep(s, TRUE)

\* What authenticate loaded is still what the token file holds until the file
\* is written.
NotSaved == ~Ran("save")

\* Lines 87-96 are behind the process and the token file was readable.
AcquireDone ==
    /\ pc \in {"auth_save", "auth_build", "serving", "auth_failed"}
    /\ tokenFile.kind # "corrupt"
    /\ NotSaved

RefreshCond(t) ==
    /\ t.kind = "token"
    /\ ~t.valid
    /\ t.expired
    /\ t.refresh_token

ConsentCond(t) ==
    \/ t.kind = "absent"
    \/ /\ t.kind = "token"
       /\ ~t.valid
       /\ ~(t.expired /\ t.refresh_token)

UsablePath(path) == ~Falsy(path) /\ path # MissingSecrets

\* C7: with a valid token in the token file, authenticate runs no consent
\* step and no refresh call and does not fail, whether or not
\* GOOGLE_OAUTH_PATH is set.
C7_ValidTokenIsUsed ==
    (tokenFile.kind = "token" /\ tokenFile.origin = "file" /\ tokenFile.valid)
        => /\ ~Ran("refresh")
           /\ ~Ran("consent")
           /\ pc # "auth_failed"

C7_Witness ==
    /\ pc = "serving"
    /\ tokenFile.kind = "token"
    /\ tokenFile.origin = "file"
    /\ tokenFile.valid
    /\ Falsy(oauthPath)
    /\ authLog = <<AuthStep("load", TRUE), AuthStep("build", TRUE)>>

\* A refreshed or newly obtained credential is written to the token file
\* before the service handles are built.
SavedBeforeBuild ==
    \A j \in DOMAIN authLog :
        (authLog[j].step = "build" /\ (Ran("refresh") \/ Ran("consent")))
            => \E k \in 1..(j - 1) :
                    /\ authLog[k].step = "save"
                    /\ \E i \in 1..(k - 1) : authLog[i] \in
                            {AuthStep("refresh", TRUE), AuthStep("consent", TRUE)}

\* C8 as the specification states it: refresh is attempted exactly when the
\* loaded credential is invalid, expired and refreshable; the consent flow is
\* run exactly when there is no token file or the loaded credential is invalid
\* without being both expired and refreshable; the result is persisted before
\* the service handles are built.
C8_BranchSelection ==
    /\ AcquireDone
        => /\ Ran("refresh") <=> RefreshCond(tokenFile)
           /\ Ran("consent") <=> ConsentCond(tokenFile)
    /\ SavedBeforeBuild

\* C8, amended: refresh is attempted exactly when the loaded credential is
\* invalid, expired and refreshable; the consent flow is run exactly when
\* there is no token file or the loaded credential is invalid without being
\* both expired and refreshable AND GOOGLE_OAUTH_PATH names a readable client
\* secrets file, and otherwise authenticate fails in that branch without
\* running it; the result is persisted before the service handles are built.
C8_BranchSelectionGivenPath ==
    /\ AcquireDone
        => /\ Ran("refresh") <=> RefreshCond(tokenFile)
           /\ Ran("consent") <=> (ConsentCond(tokenFile) /\ UsablePath(oauthPath))
           /\ (ConsentCond(tokenFile) /\ ~UsablePath(oauthPath))
                => pc = "auth_failed"
    /\ SavedBeforeBuild

C8_Witness ==
    /\ pc = "serving"
    /\ authLog = <<AuthStep("load", TRUE), AuthStep("refresh", TRUE),
                   AuthStep("save", TRUE), AuthStep("build", TRUE)>>
    /\ creds.origin = "refresh"

\* C9 as the specification states it: every successful run of authenticate
\* writes the token file.
C9_EverySuccessWrites ==
    pc = "serving" => Ran("save")

\* C9, amended: a successful run of authenticate writes the token file
\* exactly when it refreshed or newly obtained the credential; a run that
\* loaded a valid token writes nothing; either way the token file holds the
\* session's credential when authenticate returns.
C9_SuccessLeavesTokenCurrent ==
    pc = "serving"
        => /\ tokenFile = creds
           /\ Ran("save") <=> (Succeeded("refresh") \/ Succeeded("consent"))

C9_Witness ==
    /\ pc = "serving"
    /\ Succeeded("consent")
    /\ Ran("save")
    /\ tokenFile = creds
    /\ creds.origin = "consent"

\* C10 as the specification states it: with GOOGLE_OAUTH_PATH unset,
\* acquisition fails before any network attempt whatever the token state: no
\* refresh, no consent flow, no service built.
C10_UnsetPathFailsFast ==
    Falsy(oauthPath)
        => /\ ~Ran("refresh")
           /\ ~Ran("consent")
           /\ ~Ran("build")

\* C10, amended: with GOOGLE_OAUTH_PATH unset, main exits with status 1
\* before authenticate starts; authenticate itself raises the configuration
\* error exactly when it reaches the consent branch (no token file, or a
\* loaded credential that is invalid and not both expired and refreshable),
\* and then no refresh, consent flow or service build came before the error.
C10_UnsetPathFailsInConsentBranch ==
    Falsy(oauthPath)
        => /\ ~Ran("consent")
           /\ pc = "exited" => (exit_status = 1 /\ authLog = <<>>)
           /\ result = ConfigError
                => /\ pc = "auth_failed"
                   /\ ~Ran("refresh")
                   /\ ~Ran("build")
                   /\ sheets_service = FALSE
           /\ AcquireDone => (result = ConfigError <=> ConsentCond(tokenFile))

C10_Witness ==
    /\ Falsy(oauthPath)
    /\ pc = "auth_failed"
    /\ result = ConfigError
    /\ tokenFile.kind = "token"
    /\ tokenFile.refresh_token
    /\ ~tokenFile.expired

----------------------------------------------------------------------------
\* Creates racing with one another and with a reader of the slot.  Requests
\* that arrive together are served one handler at a time, in either order: a
\* handler never awaits, so nothing runs between its first and last line.

spreadsheet_create_repeated == Create(MaxCreates)

NextRace ==
    \/ respond
    \/ spreadsheet_create_repeated
    \/ values_get

SpecRace == Init /\ [][NextRace]_vars

\* The identifier returned by the create that completed last.
LastCreated == IdNames[Cardinality(Created)]

\* C12: after any number of creates the slot holds the identifier written by
\* the create that wrote last; a tool that omits spreadsheet_id targets the
\* slot's value at the moment it runs, which is the value before or after a
\* create it arrived together with, depending on which of them ran first.
C12_LastCreateWins ==
    /\ current_spreadsheet_id # None
            => (Created # {} /\ current_spreadsheet_id = LastCreated)
    /\ (req.handler = "values_get" /\ Falsy(req.explicit) /\ calls # <<>>)
            => \A i \in DOMAIN calls : calls[i].doc = current_spreadsheet_id

C12_Witness ==
    /\ Cardinality(Created) = 2
    /\ current_spreadsheet_id = IdNames[2]
    /\ req.handler = "values_get"
    /\ req.explicit = None
    /\ calls # <<>>
    /\ calls[1].doc = IdNames[2]

----------------------------------------------------------------------------
\* Name resolution on its own: get_sheet_id_by_name against sheet lists of
\* every order and numbering, asked for names that are present, absent, or
\* present in another letter case.

TitlePool == {"Sheet1", "Data", "data", "Summary"}

\* Titles of one document: the service keeps them distinct.
TitleLists ==
    {ts \in UNION {[1..k -> TitlePool] : k \in 1..MaxSheets} :
        \A i, j \in DOMAIN ts : i # j => Lower(ts[i]) # Lower(ts[j])}

\* Sheet ids are independent of the position of a sheet in the list.
LiveSheetLists ==
    {[i \in DOMAIN ts |-> Sheet(ts[i], IF up THEN i - 1 ELSE Len(ts) - i)] :
        ts \in TitleLists, up \in BOOLEAN}

InitResolve ==
    /\ pc = "serving"
    /\ exit_status = -1
    /\ oauthPath = "/home/u/credentials.json"
    /\ tokenFile = Token(TRUE, FALSE, TRUE, "file")
    /\ creds = Token(TRUE, FALSE, TRUE, "file")
    /\ sheets_service = TRUE
    /\ current_spreadsheet_id = None
    /\ docs \in [{ReadOnlyDoc} -> [sheets : LiveSheetLists]]
    /\ authLog = <<AuthStep("load", TRUE), AuthStep("build", TRUE)>>
    /\ req = NoReq
    /\ calls = <<>>
    /\ result = NoResult

\* One call of client.get_sheet_id_by_name(spreadsheet_id, sheet_name).
call_get_sheet_id_by_name ==
    \E name \in TitlePool, f \in Outcome :
       LET g == get_sheet_id_by_name(docs, ReadOnlyDoc, name, f) IN
       /\ Idle
       /\ UNCHANGED current_spreadsheet_id
       /\ Handler("get_sheet_id_by_name", ReadOnlyDoc, <<name>>, <<g.call>>,
                  Ok(g.value), docs)

NextResolve == call_get_sheet_id_by_name

SpecResolve == InitResolve /\ [][NextResolve]_vars

\* Positions of the sheets whose title is exactly the name.
Hits(sheets, name) == {i \in DOMAIN sheets : sheets[i].title = name}

\* C14: get_sheet_id_by_name performs exactly one metadata read and returns
\* the sheetId of the first sheet whose title equals the name exactly; a name
\* that is absent, or present only in another letter case, gives None (not
\* found), never another sheet's id and never an exception.
C14_ExactFirstMatch ==
    req.handler = "get_sheet_id_by_name"
        => LET sheets == docs[req.explicit].sheets
               hits   == Hits(sheets, req.names[1])
           IN /\ Len(calls) = 1
              /\ calls[1].op = "spreadsheets.get"
              /\ ~calls[1].mutating
              /\ result.kind = "ok"
              /\ (calls[1].outcome = "ok" /\ hits # {})
                    => \E i \in hits :
                          /\ \A j \in hits : i <= j
                          /\ result.detail = sheets[i].sheetId
              /\ hits = {} => result.detail = NoSheet

C14_Witness ==
    /\ req.handler = "get_sheet_id_by_name"
    /\ req.names = <<"data">>
    /\ "Data" \in Titles(docs[ReadOnlyDoc].sheets)
    /\ calls[1].outcome = "ok"
    /\ result = Ok(NoSheet)

----------------------------------------------------------------------------
\* A document the session shares with other clients: between the metadata
\* read of a handler and its batchUpdate, the service may serve them.

\* The session after spreadsheet_create(sheets=["Sheet1", "Data"]).
InitShared ==
    /\ pc = "serving"
    /\ exit_status = -1
    /\ oauthPath = "/home/u/credentials.json"
    /\ tokenFile = Token(TRUE, FALSE, TRUE, "file")
    /\ creds = Token(TRUE, FALSE, TRUE, "file")
    /\ sheets_service = TRUE
    /\ current_spreadsheet_id = IdNames[1]
    /\ docs = [d \in {ReadOnlyDoc, IdNames[1]} |->
                 IF d = ReadOnlyDoc THEN [sheets |-> <<Sheet("Sheet1", 0)>>]
                 ELSE [sheets |-> <<Sheet("Sheet1", 0), Sheet("Data", 1)>>]]
    /\ authLog = <<AuthStep("load", TRUE), AuthStep("build", TRUE)>>
    /\ req = NoReq
    /\ calls = <<>>
    /\ result = NoResult

sheet_delete_shared ==
    /\ Idle
    /\ \E e \in ExplicitIds, n \in SheetNames :
       ResolvedAt("sheet_delete", e, n, "deleteSheet", "", TRUE)

sheet_hide_shared ==
    /\ Idle
    /\ \E e \in ExplicitIds, n \in SheetNames :
       ResolvedAt("sheet_hide", e, n, "updateSheetProperties", "", TRUE)

NextShared ==
    \/ respond
    \/ sheet_delete_shared
    \/ sheet_hide_shared

SpecShared == InitShared /\ [][NextShared]_vars

\* The mutating calls of a handler's log.
Submitted(cs) == {i \in DOMAIN cs : cs[i].mutating /\ cs[i].requests # <<>>}

\* C15 as the specification states it: the sheet id in a handler's mutating
\* request denotes the sheet that bears the given name when the request is
\* submitted.  A sheet that is hidden bears the name once the request was
\* applied; a sheet that is deleted took the name with it.
C15_NoStalenessWindow ==
    [][ \A i \in Submitted(calls') :
            LET c      == calls'[i]
                sheets == docs'[c.doc].sheets
            IN (ResolvesName(req') /\ c.outcome = "ok")
                 => IF req'.handler = "sheet_delete"
                      THEN req'.names[1] \notin Titles(sheets)
                      ELSE \E k \in DOMAIN sheets :
                              /\ sheets[k].sheetId = c.requests[1].sheetId
                              /\ sheets[k].title = req'.names[1] ]_vars

\* C15, amended: every handler that takes a sheet name performs its own
\* metadata read first (no cache), and the sheet id in its mutating request
\* is the id of the sheet that bore the name in that read; what other clients
\* did to the document between the read and the request is not seen.
C15_IdFromOwnFreshRead ==
    [][ \A i \in Submitted(calls') :
            ResolvesName(req')
                => /\ i = 2
                   /\ calls'[1].op = "spreadsheets.get"
                   /\ calls'[1].doc = calls'[i].doc
                   /\ calls'[1].outcome = "ok"
                   /\ \E k \in Hits(docs[calls'[i].doc].sheets, req'.names[1]) :
                          docs[calls'[i].doc].sheets[k].sheetId
                              = calls'[i].requests[1].sheetId ]_vars

\* A stale id was submitted: the sheet read as "Data" had been renamed by
\* another client when the hide request was applied to it.
C15_Witness ==
    /\ req.handler = "sheet_hide"
    /\ req.names = <<"Data">>
    /\ Len(calls) = 2
    /\ calls[2].outcome = "ok"
    /\ \E k \in DOMAIN docs[calls[2].doc].sheets :
          /\ docs[calls[2].doc].sheets[k].sheetId = calls[2].requests[1].sheetId
          /\ docs[calls[2].doc].sheets[k].title = "Archive"

----------------------------------------------------------------------------
\* The extent of the range-taking tools: what goes into the GridRange of the
\* request for A1 ranges of different bounds.

GridRanges ==
    {<<"Sheet1", "!", "A1:B2">>, <<"Sheet1", "!", "C3:D9">>,
     <<"Data", "!", "A1:B2">>, <<"Data", "!", "C3:Z1000">>,
     <<"A1:B2">>, <<"C3:D9">>}

\* `range.split('!')[-1]`: the cell bounds of an A1 range.
CellsOf(r) == r[Len(r)]

Block(r0, r1, c0, c1) ==
    [startRowIndex |-> r0, endRowIndex |-> r1,
     startColumnIndex |-> c0, endColumnIndex |-> c1]

\* The half-open zero-based block that the cell bounds denote.
A1Block(cells) ==
    CASE cells = "A1:B2" -> Block(0, 2, 0, 2)
      [] cells = "C3:D9" -> Block(2, 9, 2, 4)
      [] cells = "C3:Z1000" -> Block(2, 1000, 2, 26)

\* The formatting, validation, merge, border and filter tools.
BlockTools ==
    {"format_cells", "conditional_format_add", "text_rotate", "text_wrap",
     "validation_add", "validation_clear", "cells_merge", "cells_unmerge",
     "borders_update", "filter_apply"}

\* The request kind each of them submits.
BlockKind(tool) ==
    CASE tool \in {"format_cells", "text_rotate", "text_wrap"} -> "repeatCell"
      [] tool = "conditional_format_add" -> "addConditionalFormatRule"
      [] tool \in {"validation_add", "validation_clear"} -> "setDataValidation"
      [] tool = "cells_merge" -> "mergeCells"
      [] tool = "cells_unmerge" -> "unmergeCells"
      [] tool = "borders_update" -> "updateBorders"
      [] tool = "filter_apply" -> "setBasicFilter"

\* Variant: the extent is parsed from the caller's range.
BlockFromRange(tool, r) == A1Block(CellsOf(r))

\* The extent the tool writes into its request: literals in the code, the
\* range argument is not read for it.
FixedBlock(tool, r) ==
    CASE tool \in {"cells_merge", "cells_unmerge", "borders_update"} -> Block(0, 10, 0, 5)
      [] tool = "filter_apply" -> Block(0, 1000, 0, 26)
      [] OTHER -> Block(0, 100, 0, 26)

GridRequest(kind, id, b) ==
    [kind |-> kind,
     title |-> "",
     sheetId |-> id,
     targetSheetId |-> NoSheet,
     range |-> [sheetId |-> id,
                startRowIndex |-> b.startRowIndex, endRowIndex |-> b.endRowIndex,
                startColumnIndex |-> b.startColumnIndex,
                endColumnIndex |-> b.endColumnIndex]]

\* One call of a block tool; calls follow one another on the session.
\* filter_apply takes the sheet name as its own argument, the others take it
\* from the range prefix.
block_tool ==
    \E tool \in BlockTools, e \in ExplicitIds, r \in GridRanges, n \in SheetNames :
       LET id    == ResolveDocumentId(e, current_spreadsheet_id)
           sheet == IF tool = "filter_apply" THEN n ELSE SheetOfRange(r)
           Log(cs, res, d) ==
               /\ req' = [handler |-> tool, explicit |-> e, names |-> <<sheet>>,
                          range |-> r]
               /\ calls' = cs
               /\ result' = res
               /\ docs' = d
               /\ UNCHANGED authVars
       IN /\ pc = "serving"
          /\ UNCHANGED current_spreadsheet_id
          /\ IF MissingId(id)
               THEN Log(<<>>, NoId, docs)
               ELSE \E f1 \in Outcome :
                       LET g == get_sheet_id_by_name(docs, id, sheet, f1) IN
                       IF g.value = NoSheet
                         THEN Log(<<g.call>>, SheetNotFound, docs)
                         ELSE \E f2 \in Outcome :
                                 LET c == Call(docs, "spreadsheets.batchUpdate", id, TRUE,
                                               <<GridRequest(BlockKind(tool), g.value,
                                                             FixedBlock(tool, r))>>, f2)
                                 IN Log(<<g.call, c>>, Raised(c), After(docs, c))

NextGrid == block_tool

SpecGrid == InitShared /\ [][NextGrid]_vars

\* C16: two calls of the same formatting, validation, merge, border or
\* filter tool that differ only in the cell bounds of the range (same
\* spreadsheet, same sheet, same other arguments) submit identical requests:
\* the extent in the request is a fixed block.
C16_ExtentIgnoresBounds ==
    [][ (/\ req.handler \in BlockTools
         /\ req'.handler = req.handler
         /\ req'.explicit = req.explicit
         /\ req'.names = req.names
         /\ CellsOf(req'.range) # CellsOf(req.range)
         /\ Submitted(calls) # {}
         /\ Submitted(calls') # {})
            => /\ Submitted(calls') = Submitted(calls)
               /\ \A i \in Submitted(calls) :
                      /\ calls'[i].requests = calls[i].requests
                      /\ calls'[i].doc = calls[i].doc ]_vars

C16_Witness ==
    /\ req.handler = "cells_merge"
    /\ CellsOf(req.range) = "C3:D9"
    /\ Len(calls) = 2
    /\ calls[2].outcome = "ok"
    /\ calls[2].requests[1].range.endRowIndex = 10
    /\ calls[2].requests[1].range.endColumnIndex = 5

----------------------------------------------------------------------------
\* Cell values: values_update followed by values_get.  The remote service
\* keeps the cells of the first sheet of each document; the handlers pass
\* range, values and options through unchanged.

MaxValueRows == 2

\* The columns of the ranges followed.
ValueColumns == <<"A", "B">>

\* What a caller writes into a cell: nothing, text, a formula.
CellTexts == {"", "x", "=1+1"}

InputOptions == {"USER_ENTERED", "RAW"}
RenderOptions == {"FORMATTED_VALUE", "FORMULA"}

\* The ranges A1:<cell in row `rows`, column `cols`>.
ValueRanges == [rows : 1..MaxValueRows, cols : DOMAIN ValueColumns]

\* Rectangular arrays, the empty array included.
Arrays ==
    UNION {[1..r -> [1..c -> CellTexts]] : r \in 0..MaxValueRows, c \in DOMAIN ValueColumns}

GridCells == (1..MaxValueRows) \X (DOMAIN ValueColumns)

\* A cell as the service keeps it: the text and how it was entered.
Stored(v, input) == [text |-> v, entered |-> IF v = "" THEN "RAW" ELSE input]

\* The service evaluates a formula entered as a user would type it, and
\* shows its value unless the formula is asked for.
Coerced(v, input, render) ==
    v = "=1+1" /\ input = "USER_ENTERED" /\ render # "FORMULA"

Rendered(cell, render) ==
    IF Coerced(cell.text, cell.entered, render) THEN "2" ELSE cell.text

\* The array fits the range (the service rejects one that exceeds it).
Fits(a, r) == Len(a) <= r.rows /\ \A i \in DOMAIN a : Len(a[i]) <= r.cols

\* The cells after values.update: only the cells the array covers change.
Written(cells, a, input) ==
    [p \in DOMAIN cells |->
        IF p[1] \in DOMAIN a /\ p[2] \in DOMAIN a[p[1]]
          THEN Stored(a[p[1]][p[2]], input)
          ELSE cells[p]]

\* The service may leave out trailing empty cells of a row ...
RECURSIVE TrimRow(_)
TrimRow(row) ==
    IF row = <<>> THEN <<>>
    ELSE IF row[Len(row)] = "" THEN TrimRow(SubSeq(row, 1, Len(row) - 1))
    ELSE row

\* ... and trailing empty rows.
RECURSIVE TrimRows(_)
TrimRows(rows) ==
    IF rows = <<>> THEN <<>>
    ELSE IF rows[Len(rows)] = <<>> THEN TrimRows(SubSeq(rows, 1, Len(rows) - 1))
    ELSE rows

\* The response of values.get: no 'values' key when nothing is left.
ValuesResponse(cells, r, render) ==
    LET vs == TrimRows([i \in 1..r.rows |->
                  TrimRow([j \in 1..r.cols |-> Rendered(cells[<<i, j>>], render)])])
    IN IF vs = <<>> THEN [range |-> r] ELSE [range |-> r, values |-> vs]

\* The responses values.get may give: every cell of the range, or the
\* trailing empty ones left out.  Which one the service gives is its own
\* matter; the handler returns either unchanged.
ValuesResponses(cells, r, render) ==
    {ValuesResponse(cells, r, render),
     [range  |-> r,
      values |-> [i \in 1..r.rows |-> [j \in 1..r.cols |-> Rendered(cells[<<i, j>>], render)]]]}

\* Variant: only the first row of the response is returned.
ValuesOfFirstRow(resp) == IF "values" \in DOMAIN resp THEN <<resp.values[1]>> ELSE <<>>

\* `result.get('values', [])`
ValuesOf(resp) == IF "values" \in DOMAIN resp THEN resp.values ELSE <<>>

ValueIds == {None, ReadOnlyDoc}

\* The session after spreadsheet_create, the range filled by an earlier write.
InitValues ==
    /\ pc = "serving"
    /\ exit_status = -1
    /\ oauthPath = "/home/u/credentials.json"
    /\ tokenFile = Token(TRUE, FALSE, TRUE, "file")
    /\ creds = Token(TRUE, FALSE, TRUE, "file")
    /\ sheets_service = TRUE
    /\ current_spreadsheet_id = IdNames[1]
    /\ docs = [d \in {ReadOnlyDoc, IdNames[1]} |->
                 [sheets |-> <<Sheet("Sheet1", 0)>>,
                  cells  |-> [p \in GridCells |-> Stored("x", "RAW")]]]
    /\ authLog = <<AuthStep("load", TRUE), AuthStep("build", TRUE)>>
    /\ req = NoReq
    /\ calls = <<>>
    /\ result = NoResult

ValueCall(h, e, r, a, option, cs, res, d) ==
    /\ req' = [handler |-> h, explicit |-> e, names |-> <<>>, range |-> r,
               values |-> a, option |-> option]
    /\ calls' = cs
    /\ result' = res
    /\ docs' = d
    /\ UNCHANGED <<authVars, current_spreadsheet_id>>

\* values_update with the cells kept: the session's first call.
values_update_cells ==
    /\ Idle
    /\ \E e \in ValueIds, r \in ValueRanges, a \in Arrays, input \in InputOptions :
       LET id == ResolveDocumentId(e, current_spreadsheet_id) IN
       /\ TRUE
       /\ IF MissingId(id)
            THEN ValueCall("values_update", e, r, a, input, <<>>, NoId, docs)
            ELSE \E f \in Outcome :
                    LET o == IF f = "ok" /\ id # ReadOnlyDoc /\ ~Fits(a, r) THEN "400"
                             ELSE RemoteOutcome(docs, id, TRUE, <<>>, f)
                        c == [doc |-> id,
                              mutating |-> TRUE,
                              op |-> "values.update",
                              requests |-> <<>>,
                              outcome |-> o]
                    IN ValueCall("values_update", e, r, a, input, <<c>>, Raised(c),
                                 IF o = "ok"
                                   THEN [docs EXCEPT ![id].cells = Written(@, a, input)]
                                   ELSE docs)

\* values_get with the cells kept.
values_get_cells ==
    \E e \in ValueIds, r \in ValueRanges, render \in RenderOptions :
       LET id == ResolveDocumentId(e, current_spreadsheet_id) IN
       /\ pc = "serving"
       /\ IF MissingId(id)
            THEN ValueCall("values_get", e, r, <<>>, render, <<>>, NoId, docs)
            ELSE \E f \in Outcome :
                    LET c == Call(docs, "values.get", id, FALSE, <<>>, f) IN
                    IF c.outcome = "ok"
                      THEN \E resp \in ValuesResponses(docs[id].cells, r, render) :
                              ValueCall("values_get", e, r, <<>>, render, <<c>>,
                                        Ok(ValuesOf(resp)), docs)
                      ELSE ValueCall("values_get", e, r, <<>>, render, <<c>>,
                                     HttpError(c.outcome), docs)

NextValues == values_update_cells \/ values_get_cells

SpecValues == InitValues /\ [][NextValues]_vars

\* A successful values_update followed at once by a successful values_get
\* of the same range of the same document.
WriteThenRead ==
    /\ req.handler = "values_update"
    /\ result.kind = "ok"
    /\ req'.handler = "values_get"
    /\ result'.kind = "ok"
    /\ req'.range = req.range
    /\ calls'[1].doc = calls[1].doc

\* No value of the array is one the service coerces: none is a formula it
\* evaluates, and none is the empty string, which stands for no value and
\* which the service may leave out of what it returns.
Uncoerced(a, input, render) ==
    \A i \in DOMAIN a : \A j \in DOMAIN a[i] :
       a[i][j] # "" /\ ~Coerced(a[i][j], input, render)

\* The array has the shape of the range it is written to.
FillsRange(a, r) ==
    /\ Len(a) = r.rows
    /\ \A i \in DOMAIN a : Len(a[i]) = r.cols

----------------------------------------------------------------------------
\* sheet_add called again and again, with what it returns from the reply.

AddTitles == OtherTitles \cup {"Summary"}

\* `replies[0]['addSheet']['properties']`: the sheet the service appended.
AddSheetReply(sheets) == sheets[Len(sheets)]

\* Number of sheets an action of SpecAdd may add to a document.
MaxAdded == 2

\* Variant: sheet_add looks the title up first and returns the sheet that
\* bears it instead of adding one.
sheet_add_replyIfAbsent ==
    \E e \in ExplicitIds, t \in AddTitles :
       LET id == ResolveDocumentId(e, current_spreadsheet_id) IN
       /\ pc = "serving"
       /\ UNCHANGED <<authVars, current_spreadsheet_id>>
       /\ req' = [handler |-> "sheet_add", explicit |-> e, names |-> <<t>>]
       /\ IF MissingId(id)
            THEN calls' = <<>> /\ result' = NoId /\ docs' = docs
            ELSE \E f1 \in Outcome, f \in Outcome :
                    LET g  == get_sheet_id_by_name(docs, id, t, f1)
                        c  == Call(docs, "spreadsheets.batchUpdate", id, TRUE,
                                   <<Request("addSheet", NoSheet, t)>>, f)
                        d2 == After(docs, c)
                    IN IF g.value # NoSheet
                         THEN /\ calls' = <<g.call>>
                              /\ result' = Ok([title |-> t, sheetId |-> g.value])
                              /\ docs' = docs
                         ELSE /\ \A x \in DOMAIN d2 : Len(d2[x].sheets) <= Cardinality(SheetNames) + MaxAdded
                              /\ calls' = <<c>>
                              /\ result' = IF c.outcome = "ok"
                                             THEN Ok([title   |-> AddSheetReply(d2[id].sheets).title,
                                                      sheetId |-> AddSheetReply(d2[id].sheets).sheetId])
                                             ELSE HttpError(c.outcome)
                              /\ docs' = d2

\* sheet_add with what it returns: the request is built from the title and
\* submitted without a look at the document; the identifier returned is the
\* one in the reply.
sheet_add_reply ==
    \E e \in ExplicitIds, t \in AddTitles :
       LET id == ResolveDocumentId(e, current_spreadsheet_id) IN
       /\ pc = "serving"
       /\ UNCHANGED <<authVars, current_spreadsheet_id>>
       /\ req' = [handler |-> "sheet_add", explicit |-> e, names |-> <<t>>]
       /\ IF MissingId(id)
            THEN calls' = <<>> /\ result' = NoId /\ docs' = docs
            ELSE \E f \in Outcome :
                    LET c  == Call(docs, "spreadsheets.batchUpdate", id, TRUE,
                                   <<Request("addSheet", NoSheet, t)>>, f)
                        d2 == After(docs, c)
                    IN /\ \A x \in DOMAIN d2 : Len(d2[x].sheets) <= Cardinality(SheetNames) + MaxAdded
                       /\ calls' = <<c>>
                       /\ result' = IF c.outcome = "ok"
                                      THEN Ok([title   |-> AddSheetReply(d2[id].sheets).title,
                                               sheetId |-> AddSheetReply(d2[id].sheets).sheetId])
                                      ELSE HttpError(c.outcome)
                       /\ docs' = d2

NextAdd == sheet_add_reply

SpecAdd == InitShared /\ [][NextAdd]_vars

\* A successful sheet_add followed at once by sheet_add with the same title
\* on the same document, the service being available.
AddedTwice ==
    /\ req.handler = "sheet_add"
    /\ result.kind = "ok"
    /\ req'.handler = "sheet_add"
    /\ req'.names = req.names
    /\ calls' # <<>>
    /\ calls'[1].doc = calls[1].doc
    /\ calls'[1].outcome # "403"

IssuesAddSheet(cs, t) ==
    /\ Len(cs) = 1
    /\ cs[1].op = "spreadsheets.batchUpdate"
    /\ cs[1].requests = <<Request("addSheet", NoSheet, t)>>

\* The places of the sheets titled t in a sheet list.
Titled(sheets, t) == {i \in DOMAIN sheets : sheets[i].title = t}

\* C18: sheet_add is not idempotent: invoked twice with the same title on
\* the same document it issues an addSheet request each time and produces
\* two distinct sheet identifiers, each of a sheet of that title.
C18_TwoDistinctIds ==
    [][ AddedTwice =>
           /\ IssuesAddSheet(calls, req.names[1])
           /\ IssuesAddSheet(calls', req.names[1])
           /\ result'.kind = "ok"
           /\ result'.detail.sheetId # result.detail.sheetId
           /\ Len(docs'[calls[1].doc].sheets) = Len(docs[calls[1].doc].sheets) + 1
           /\ {result.detail.sheetId, result'.detail.sheetId} \subseteq
                 {docs'[calls[1].doc].sheets[i].sheetId :
                     i \in Titled(docs'[calls[1].doc].sheets, req.names[1])} ]_vars

C18_Witness ==
    /\ req.handler = "sheet_add"
    /\ req.names = <<"Archive">>
    /\ result.kind = "ok"
    /\ Len(calls) = 1
    /\ calls[1].doc = IdNames[1]
    /\ Cardinality(Titled(docs[IdNames[1]].sheets, "Archive")) = 2
    /\ result.detail.sheetId = docs[IdNames[1]].sheets[Len(docs[IdNames[1]].sheets)].sheetId

----------------------------------------------------------------------------
\* spreadsheet_create with its request body and the record it returns.

DocTitles == {"T1", "New Spreadsheet"}

\* Sheet name lists a caller may ask for: none, one, two in either order, a
\* repeated name.
CreateNameLists == {<<>>, <<"A">>, <<"A", "B">>, <<"B", "A">>, <<"A", "A">>}

\* `[{'properties': {'title': sheet_name}} for sheet_name in sheets]`
SheetDescriptors(names) == [i \in DOMAIN names |-> [properties |-> [title |-> names[i]]]]

spreadsheet_body(title, names) ==
    [sheets |-> SheetDescriptors(names), properties |-> [title |-> title]]

\* The sheets of a document made from a body: one per descriptor, a default
\* sheet when there is none.
SheetsMade(body) ==
    IF body.sheets = <<>> THEN <<Sheet("Sheet1", 0)>>
    ELSE [i \in DOMAIN body.sheets |-> Sheet(body.sheets[i].properties.title, i - 1)]

\* The service refuses a body that names a sheet twice.
ValidBody(body) ==
    \A i, j \in DOMAIN body.sheets :
        i # j => body.sheets[i].properties.title # body.sheets[j].properties.title

\* The fields asked of the service: 'spreadsheetId,spreadsheetUrl,sheets'.
CreateResponse(id, body) ==
    [sheets |-> SheetsMade(body),
     spreadsheetId |-> id,
     spreadsheetUrl |-> <<"https://docs.google.com/spreadsheets/d/", id>>]

\* Variant: the sheet names of the record are read from the response.
SpreadsheetInfoFromResponse(resp, title, names) ==
    [title |-> title,
     sheets |-> [i \in DOMAIN resp.sheets |-> resp.sheets[i].title],
     spreadsheet_id |-> resp.spreadsheetId,
     url |-> resp.spreadsheetUrl]

\* `SpreadsheetInfo(spreadsheet_id=result['spreadsheetId'], title=title,
\*  url=result.get('spreadsheetUrl', ''), sheets=sheets)`
SpreadsheetInfo(resp, title, names) ==
    [title |-> title,
     sheets |-> names,
     spreadsheet_id |-> resp.spreadsheetId,
     url |-> resp.spreadsheetUrl]

spreadsheet_create_record ==
    \E title \in DocTitles, names \in CreateNameLists, f \in Outcome :
       LET newId == IdNames[Cardinality(Created) + 1]
           body  == spreadsheet_body(title, names)
           o     == IF f = "ok" /\ ~ValidBody(body) THEN "400" ELSE f
           resp  == CreateResponse(newId, body)
           c     == [doc |-> None,
                     mutating |-> TRUE,
                     op |-> "spreadsheets.create",
                     requests |-> body,
                     outcome |-> o]
           res   == IF o = "ok" THEN Ok(SpreadsheetInfo(resp, title, names))
                    ELSE HttpError(o)
       IN /\ pc = "serving"
          /\ o = "ok" => Cardinality(Created) < MaxCreates
          /\ req' = [handler |-> "spreadsheet_create", explicit |-> None,
                     names |-> names, title |-> title]
          /\ calls' = <<c>>
          /\ result' = res
          /\ docs' = IF o = "ok"
                       THEN [x \in DOMAIN docs \cup {newId} |->
                               IF x = newId THEN [sheets |-> resp.sheets] ELSE docs[x]]
                       ELSE docs
          /\ current_spreadsheet_id' =
                SetCurrent(current_spreadsheet_id,
                           IF o = "ok" THEN Ok(resp.spreadsheetId) ELSE HttpError(o))
          /\ UNCHANGED authVars

NextCreate == spreadsheet_create_record

SpecCreate == Init /\ [][NextCreate]_vars

\* C19: a successful spreadsheet_create returns the identifier the service
\* gave the new document (non-empty), the requested title and the requested
\* sheet names in their order; its one request holds the title and exactly
\* one sheet descriptor per requested name, in order.
C19_CreateRecord ==
    req.handler = "spreadsheet_create" =>
       /\ Len(calls) = 1
       /\ calls[1].op = "spreadsheets.create"
       /\ calls[1].requests.properties.title = req.title
       /\ Len(calls[1].requests.sheets) = Len(req.names)
       /\ \A i \in DOMAIN req.names :
              calls[1].requests.sheets[i] = [properties |-> [title |-> req.names[i]]]
       /\ result.kind = "ok" =>
              /\ result.detail.spreadsheet_id \in Created
              /\ ~Falsy(result.detail.spreadsheet_id)
              /\ result.detail.spreadsheet_id = current_spreadsheet_id
              /\ result.detail.title = req.title
              /\ result.detail.sheets = req.names

C19_Witness ==
    /\ req.handler = "spreadsheet_create"
    /\ req.names = <<"B", "A">>
    /\ result.kind = "ok"
    /\ result.detail.sheets = <<"B", "A">>
    /\ Titles(docs[result.detail.spreadsheet_id].sheets) = {"A", "B"}
    /\ Cardinality(Created) = 2

----------------------------------------------------------------------------
\* Column letters: the tools that take columns by letter.

Alphabet ==
    <<"A", "B", "C", "D", "E", "F", "G", "H", "I", "J", "K", "L", "M",
      "N", "O", "P", "Q", "R", "S", "T", "U", "V", "W", "X", "Y", "Z">>

Letters == {Alphabet[i] : i \in DOMAIN Alphabet}

\* Python's ord() on a capital letter: 'A' is 65.
Ord(c) == 64 + (CHOOSE i \in DOMAIN Alphabet : Alphabet[i] = c)

\* Variant: columns are counted from one.
ColumnIndexFromOne(c) == Ord(c) - Ord("A") + 1

\* `ord(column) - ord('A')`
ColumnIndex(c) == Ord(c) - Ord("A")

\* `end_idx = ord(end_column) - ord('A') + 1`
EndIndex(c) == Ord(c) - Ord("A") + 1

DimensionRequest(kind, id, startIndex, endIndex) ==
    [kind |-> kind,
     title |-> "",
     sheetId |-> id,
     targetSheetId |-> NoSheet,
     range |-> [sheetId |-> id,
                startIndex |-> startIndex,
                endIndex |-> endIndex,
                dimension |-> "COLUMNS"]]

\* note_add: `{'updateCells': {..., 'start': {sheetId, rowIndex, columnIndex}}}`
CellRequest(id, rowIndex, columnIndex) ==
    [kind |-> "updateCells",
     title |-> "",
     sheetId |-> id,
     targetSheetId |-> NoSheet,
     start |-> [sheetId |-> id, rowIndex |-> rowIndex, columnIndex |-> columnIndex]]

\* The request with the sheet id the lookup returned.
WithSheetId(r, id) ==
    IF "range" \in DOMAIN r
      THEN [r EXCEPT !.sheetId = id, !.range.sheetId = id]
      ELSE [r EXCEPT !.sheetId = id, !.start.sheetId = id]

\* The common course of these handlers: document id, sheet id by name, one
\* batchUpdate with the request r, which awaits the sheet id.
Lettered(h, e, sheet, first, last, r) ==
    LET id == ResolveDocumentId(e, current_spreadsheet_id)
        Log(cs, res, d) ==
            /\ req' = [handler |-> h, explicit |-> e, names |-> <<sheet>>,
                       start |-> first, end |-> last]
            /\ calls' = cs
            /\ result' = res
            /\ docs' = d
            /\ UNCHANGED <<authVars, current_spreadsheet_id>>
    IN IF MissingId(id)
         THEN Log(<<>>, NoId, docs)
         ELSE \E f1 \in Outcome :
                 LET g == get_sheet_id_by_name(docs, id, sheet, f1) IN
                 IF g.value = NoSheet
                   THEN Log(<<g.call>>, SheetNotFound, docs)
                   ELSE \E f2 \in Outcome :
                           LET c == Call(docs, "spreadsheets.batchUpdate", id, TRUE,
                                         <<WithSheetId(r, g.value)>>, f2)
                           IN Log(<<g.call, c>>, Raised(c), After(docs, c))

ColumnRangeTools == {"columns_hide", "columns_unhide", "columns_autofit", "columns_group"}

ColumnRangeKind(tool) ==
    CASE tool \in {"columns_hide", "columns_unhide"} -> "updateDimensionProperties"
      [] tool = "columns_autofit" -> "autoResizeDimensions"
      [] tool = "columns_group" -> "addDimensionGroup"

\* columns_hide, columns_unhide, columns_autofit, columns_group.
columns_range_tool ==
    /\ Idle
    /\ \E tool \in ColumnRangeTools, n \in SheetNames,
          first \in Letters, last \in Letters :
          Lettered(tool, None, n, first, last,
                   DimensionRequest(ColumnRangeKind(tool), NoSheet,
                                    ColumnIndex(first), EndIndex(last)))

column_resize_letter ==
    /\ Idle
    /\ \E n \in SheetNames, c \in Letters :
          Lettered("column_resize", None, n, c, c,
                   DimensionRequest("updateDimensionProperties", NoSheet,
                                    ColumnIndex(c), ColumnIndex(c) + 1))

\* note_add on the cell <letter>1 of a sheet: `row = int(cell_ref[1:]) - 1`.
note_add_letter ==
    /\ Idle
    /\ \E n \in SheetNames, c \in Letters :
          Lettered("note_add", None, n, c, c,
                   CellRequest(NoSheet, 1 - 1, ColumnIndex(c)))

NextColumns == respond \/ columns_range_tool \/ column_resize_letter \/ note_add_letter

SpecColumns == InitShared /\ [][NextColumns]_vars

\* The position of a letter in the alphabet, counted from zero.
AlphabetPosition(c) == CHOOSE n \in 0..(Len(Alphabet) - 1) : Alphabet[n + 1] = c

\* C20: for every letter A..Z the column index is the letter's position in
\* the alphabet (A -> 0, Z -> 25); a column range start..end is sent as
\* [index(start), index(end) + 1) and a single column c as
\* [index(c), index(c) + 1), a cell of column c with columnIndex index(c).
C20_ColumnLetters ==
    /\ ColumnIndex("A") = 0
    /\ ColumnIndex("Z") = 25
    /\ \A c \in Letters : ColumnIndex(c) = AlphabetPosition(c)
    /\ \A i \in Submitted(calls) :
          LET r == calls[i].requests[1] IN
          /\ req.handler \in ColumnRangeTools \cup {"column_resize"} =>
                /\ r.range.dimension = "COLUMNS"
                /\ r.range.startIndex = AlphabetPosition(req.start)
                /\ r.range.endIndex = AlphabetPosition(req.end) + 1
          /\ req.handler = "note_add" =>
                r.start.columnIndex = AlphabetPosition(req.start)

C20_Witness ==
    /\ req.handler = "columns_hide"
    /\ req.start = "C"
    /\ req.end = "Z"
    /\ Len(calls) = 2
    /\ calls[2].outcome = "ok"
    /\ calls[2].requests[1].range.startIndex = 2
    /\ calls[2].requests[1].range.endIndex = 26

----------------------------------------------------------------------------
\* main and the unset GOOGLE_OAUTH_PATH (specification SpecAuth)

\* C21: in main, with GOOGLE_OAUTH_PATH unset, the process writes a
\* diagnostic to the error stream and exits with a non-zero status before the
\* server is started: the run loop, the session construction and authenticate
\* are never reached.
C21_MainExitsBeforeServer ==
    /\ [] (pc = "exited" =>
              /\ Falsy(oauthPath)
              /\ exit_status # 0
              /\ exit_status # -1
              /\ result.kind = "stderr"
              /\ authLog = <<>>
              /\ creds = NoCreds
              /\ sheets_service = FALSE
              /\ req = NoReq
              /\ calls = <<>>)
    /\ [][ /\ (pc = "main" /\ Falsy(oauthPath)) => pc' = "exited"
           /\ pc = "exited" => UNCHANGED vars ]_vars

C21_Witness ==
    /\ pc = "exited"
    /\ exit_status = 1
    /\ oauthPath = None
    /\ tokenFile.kind = "token"
    /\ tokenFile.valid

----------------------------------------------------------------------------
\* Failing actions (specification Spec)

\* A handler has just run and raised.
FailedStep ==
    /\ req = NoReq
    /\ req' # NoReq
    /\ result'.kind \notin {"ok", "none"}

\* The sheet list with one sheet of the title appended, as addSheet leaves it.
WithAdded(sheets, t) == Append(sheets, Sheet(t, FreshSheetId(sheets)))

\* C22: a failing action is returned as an error and does not end the
\* session; the slot and the service handles are unchanged and what follows
\* is served exactly as if the failed action had not been invoked: nothing
\* that later actions depend on has changed.
C22_FailureLeavesNoTrace ==
    [][ /\ FailedStep => (pc' = "serving" /\ UNCHANGED <<authVars, current_spreadsheet_id, docs>>)
        /\ (req # NoReq /\ req' = NoReq)
              => UNCHANGED <<authVars, current_spreadsheet_id, docs>> ]_vars

\* What does hold of a failing action: the session goes on with the slot and
\* the service handles unchanged, and the documents are unchanged too except
\* that a csv_import whose values write failed leaves the sheet its addSheet
\* made.
FailureLeavesSession ==
    [][ /\ FailedStep =>
              /\ pc' = "serving"
              /\ UNCHANGED <<authVars, current_spreadsheet_id>>
              /\ docs' # docs =>
                    /\ req'.handler = "csv_import"
                    /\ Len(calls') = 3
                    /\ calls'[2].requests = <<Request("addSheet", NoSheet, req'.names[1])>>
                    /\ calls'[2].outcome = "ok"
                    /\ docs' = [docs EXCEPT ![calls'[2].doc].sheets =
                                   WithAdded(@, req'.names[1])]
        /\ (req # NoReq /\ req' = NoReq)
              => UNCHANGED <<authVars, current_spreadsheet_id, docs>> ]_vars

FailedImportKeepsSheet ==
    /\ pc = "serving"
    /\ req.handler = "csv_import"
    /\ result.kind = "HttpError"
    /\ Len(calls) = 3
    /\ calls[2].outcome = "ok"
    /\ current_spreadsheet_id \in Created
    /\ req.names[1] \in Titles(docs[calls[2].doc].sheets)

----------------------------------------------------------------------------
\* Two processes of one user starting at the same time: each runs
\* authenticate on the one token file.  Here pc, creds, sheets_service and
\* result hold one value per process, and the token file is kept as the
\* pieces of text it holds, so that a write over older text is what it is.

Procs == {1, 2}

\* The text of creds.to_json(): longer with a refresh token than with null.
Size(c) == IF c.refresh_token THEN 2 ELSE 1

\* The pieces of the text process p writes for credential c.
Bytes(p, c) == [i \in 1..Size(c) |-> [proc |-> p, token |-> c]]

NoFile == [exists |-> FALSE, bytes |-> <<>>]
FileOf(p, c) == [exists |-> TRUE, bytes |-> Bytes(p, c)]

\* Credentials.from_authorized_user_file: the credential, or an error for
\* text that is not one whole token.
Parsed(file) ==
    IF \E c \in TokenFiles : c.kind = "token" /\ file.bytes = Bytes(0, c)
      THEN file.bytes[1].token
    ELSE IF \E p \in Procs, c \in {file.bytes[i].token : i \in DOMAIN file.bytes} :
               file.bytes = Bytes(p, c)
      THEN file.bytes[1].token
    ELSE CorruptFile

\* Variant: the file is opened for appending.
WriteAtEnd(old, new) == old \o new

\* A write at offset 0 of a file: text beyond the new text stays.
Overlay(old, new) == new \o SubSeq(old, Len(new) + 1, Len(old))

InitTwo ==
    /\ pc = [p \in Procs |-> "lifespan"]
    /\ exit_status = -1
    /\ oauthPath = "/home/u/credentials.json"
    /\ tokenFile \in {NoFile} \cup
                      {FileOf(0, c) : c \in {t \in TokenFiles : t.kind = "token"}}
    /\ creds = [p \in Procs |-> NoCreds]
    /\ sheets_service = [p \in Procs |-> FALSE]
    /\ current_spreadsheet_id = None
    /\ docs = <<>>
    /\ authLog = <<>>
    /\ req = NoReq
    /\ calls = <<>>
    /\ result = [p \in Procs |-> NoResult]

TwoFrame == UNCHANGED <<exit_status, oauthPath, current_spreadsheet_id, docs, req, calls>>

Event(p, s) == [step |-> s, proc |-> p]

\* authenticate, lines 83-84, in process p.
proc_load ==
    \E p \in Procs :
       /\ pc[p] = "lifespan"
       /\ IF ~tokenFile.exists
            THEN /\ pc' = [pc EXCEPT ![p] = "auth_acquire"]
                 /\ UNCHANGED <<creds, result>>
            ELSE IF Parsed(tokenFile) = CorruptFile
            THEN /\ pc' = [pc EXCEPT ![p] = "auth_failed"]
                 /\ result' = [result EXCEPT ![p] = AuthError("token_file_unreadable")]
                 /\ UNCHANGED creds
            ELSE /\ pc' = [pc EXCEPT ![p] = "auth_acquire"]
                 /\ creds' = [creds EXCEPT ![p] = Parsed(tokenFile)]
                 /\ UNCHANGED result
       /\ UNCHANGED <<tokenFile, sheets_service, authLog>>
       /\ TwoFrame

\* authenticate, lines 87-96, in process p.
proc_acquire ==
    \E p \in Procs :
       /\ pc[p] = "auth_acquire"
       /\ LET branch == AcquireBranch(creds[p], oauthPath) IN
          CASE branch = "skip" ->
                 /\ pc' = [pc EXCEPT ![p] = NextAfterAcquire(branch)]
                 /\ UNCHANGED <<creds, result>>
            [] branch = "refresh" ->
                 \E ok \in BOOLEAN :
                    IF ok
                      THEN /\ creds' = [creds EXCEPT ![p] = Token(TRUE, FALSE, TRUE, "refresh")]
                           /\ pc' = [pc EXCEPT ![p] = NextAfterAcquire(branch)]
                           /\ UNCHANGED result
                      ELSE /\ pc' = [pc EXCEPT ![p] = "auth_failed"]
                           /\ result' = [result EXCEPT ![p] = AuthError("refresh_failed")]
                           /\ UNCHANGED creds
            [] branch = "config_error" ->
                 /\ pc' = [pc EXCEPT ![p] = "auth_failed"]
                 /\ result' = [result EXCEPT ![p] = ConfigError]
                 /\ UNCHANGED creds
            [] branch = "secrets_error" ->
                 /\ pc' = [pc EXCEPT ![p] = "auth_failed"]
                 /\ result' = [result EXCEPT ![p] = AuthError("client_secrets_unreadable")]
                 /\ UNCHANGED creds
            [] OTHER ->
                 \E ok \in BOOLEAN, r \in BOOLEAN :
                    IF ok
                      THEN /\ creds' = [creds EXCEPT ![p] = Token(TRUE, FALSE, r, "consent")]
                           /\ pc' = [pc EXCEPT ![p] = NextAfterAcquire(branch)]
                           /\ UNCHANGED result
                      ELSE /\ pc' = [pc EXCEPT ![p] = "auth_failed"]
                           /\ result' = [result EXCEPT ![p] = AuthError("consent_failed")]
                           /\ UNCHANGED creds
       /\ UNCHANGED <<tokenFile, sheets_service, authLog>>
       /\ TwoFrame

\* authenticate, line 99 in process p: open(token_path, 'w') empties the file.
proc_open ==
    \E p \in Procs :
       /\ pc[p] = "auth_save"
       /\ tokenFile' = [exists |-> TRUE, bytes |-> <<>>]
       /\ authLog' = Append(authLog, Event(p, "open"))
       /\ pc' = [pc EXCEPT ![p] = "auth_write"]
       /\ UNCHANGED <<creds, sheets_service, result>>
       /\ TwoFrame

\* authenticate, line 100 in process p: the text reaches the file, from its
\* start, when the with block closes it.
proc_write ==
    \E p \in Procs :
       /\ pc[p] = "auth_write"
       /\ tokenFile' = [exists |-> TRUE,
                        bytes |-> Overlay(tokenFile.bytes, Bytes(p, creds[p]))]
       /\ authLog' = Append(authLog, Event(p, "write"))
       /\ pc' = [pc EXCEPT ![p] = "auth_build"]
       /\ UNCHANGED <<creds, sheets_service, result>>
       /\ TwoFrame

\* authenticate, lines 103-107 in process p.
proc_build ==
    \E p \in Procs :
       /\ pc[p] = "auth_build"
       /\ sheets_service' = [sheets_service EXCEPT ![p] = TRUE]
       /\ pc' = [pc EXCEPT ![p] = "serving"]
       /\ UNCHANGED <<tokenFile, creds, authLog, result>>
       /\ TwoFrame

NextTwo == proc_load \/ proc_acquire \/ proc_open \/ proc_write \/ proc_build

SpecTwo == InitTwo /\ [][NextTwo]_vars

\* Where in the log process p did step s (0: it did not).
At(p, s) ==
    IF \E i \in DOMAIN authLog : authLog[i] = Event(p, s)
      THEN CHOOSE i \in DOMAIN authLog : authLog[i] = Event(p, s)
      ELSE 0

\* Both processes have written the token file and finished authenticate.
BothWrote ==
    /\ \A p \in Procs : pc[p] = "serving" /\ At(p, "write") > 0

LastWriter == CHOOSE p \in Procs : \A q \in Procs : At(q, "write") <= At(p, "write")
FirstWriter == CHOOSE p \in Procs : p # LastWriter

\* The first writer's text arrived between the last writer's open and write,
\* and is the longer one.
TornWrite ==
    /\ At(LastWriter, "open") < At(FirstWriter, "write")
    /\ Size(creds[FirstWriter]) > Size(creds[LastWriter])

\* C23: when both processes reach the token write, the last
\* writer wins: after both have finished, the token file holds exactly the
\* token written by the process that wrote last.
C23_LastWriterWins ==
    BothWrote => tokenFile = FileOf(LastWriter, creds[LastWriter])

\* What the code gives instead: after both have finished the
\* file starts with the text of the process that wrote last, and holds
\* exactly that token unless the other process's longer text was written
\* between the last writer's open and its write: then the rest of the other
\* text follows, and the file is no token file.
LastWriterWinsUnlessTorn ==
    BothWrote =>
       /\ tokenFile.exists
       /\ SubSeq(tokenFile.bytes, 1, Size(creds[LastWriter]))
             = Bytes(LastWriter, creds[LastWriter])
       /\ (tokenFile = FileOf(LastWriter, creds[LastWriter])) <=> ~TornWrite
       /\ TornWrite =>
             /\ tokenFile.bytes = Overlay(Bytes(FirstWriter, creds[FirstWriter]),
                                          Bytes(LastWriter, creds[LastWriter]))
             /\ Parsed(tokenFile) = CorruptFile

TornFileReached ==
    /\ BothWrote
    /\ TornWrite
    /\ Parsed(tokenFile) = CorruptFile
    /\ creds[LastWriter].origin = "consent"

----------------------------------------------------------------------------
\* csv_import: the order of its calls (specification Spec)

\* A step in which csv_import ran with a document identifier.
CsvStep == req = NoReq /\ req' # NoReq /\ req'.handler = "csv_import" /\ calls' # <<>>

IsAddSheet(c, n) ==
    /\ c.op = "spreadsheets.batchUpdate"
    /\ c.requests = <<Request("addSheet", NoSheet, n)>>

IsValuesWrite(c, n) ==
    /\ c.op = "values.update"
    /\ c.requests = <<Request("values", NoSheet, n)>>

\* What both readings share: one metadata read first, at most one addSheet
\* only as the second call of three, the values write last on the same
\* document whatever the earlier calls returned, and the caller sees the
\* outcome of the values write alone.
CsvOrder(cs, n) ==
    /\ Len(cs) \in {2, 3}
    /\ cs[1].op = "spreadsheets.get" /\ ~cs[1].mutating
    /\ IsValuesWrite(cs[Len(cs)], n)
    /\ \A i \in DOMAIN cs : cs[i].doc = cs[1].doc
    /\ Len(cs) = 3 => IsAddSheet(cs[2], n)
    /\ \A i \in DOMAIN cs : IsAddSheet(cs[i], n) => (i = 2 /\ Len(cs) = 3)
    /\ result' = Raised(cs[Len(cs)])

\* The document exists and has a sheet of the name before the step.
SheetExists(doc, n) == doc \in DOMAIN docs /\ n \in Titles(docs[doc].sheets)

\* C24: csv_import issues an addSheet only when resolution finds no sheet
\* named sheet_name, and always before the values write; when the sheet
\* already exists no addSheet is issued; a failure of resolution or of the
\* addSheet is suppressed and the values write is still attempted, so the
\* outcome reported is that of the values write alone.
C24_AddSheetOnlyIfAbsent ==
    [][ CsvStep =>
          /\ CsvOrder(calls', req'.names[1])
          /\ Len(calls') = 3 => ~SheetExists(calls'[1].doc, req'.names[1])
          /\ SheetExists(calls'[1].doc, req'.names[1]) => Len(calls') = 2 ]_vars

\* What does hold of the order: csv_import issues an addSheet exactly when
\* resolution returned no sheet id, which is when the document has no sheet
\* of the name or the metadata read failed.
AddSheetWhenUnresolved ==
    [][ CsvStep =>
          /\ CsvOrder(calls', req'.names[1])
          /\ Len(calls') = 3 <=>
                ~(calls'[1].outcome = "ok" /\ SheetExists(calls'[1].doc, req'.names[1])) ]_vars

\* csv_import has issued an addSheet for a sheet that was there: the
\* metadata read failed, the addSheet and the values write went through.
AddSheetForExistingSheet ==
    /\ req # NoReq
    /\ req.handler = "csv_import"
    /\ Len(calls) = 3
    /\ calls[1].outcome # "ok"
    /\ calls[2].outcome = "ok"
    /\ calls[3].outcome = "ok"
    /\ result.kind = "ok"
    /\ Cardinality(Titled(docs[calls[1].doc].sheets, req.names[1])) = 2

----------------------------------------------------------------------------
\* named_range_delete with the document's named ranges kept
\* (specification SpecNamed)

MaxNamed == 2

RangeNames == {"Total", "total"}
NamedRangeIds == {"nr1", "nr2", "nr3"}

NamedRange(n, i) == [name |-> n, namedRangeId |-> i]

\* The named ranges a document may hold: identifiers are the service's and
\* differ from one another.
NamedRangeLists ==
    {rs \in UNION {[1..k -> {NamedRange(n, i) : n \in RangeNames, i \in NamedRangeIds}]
                     : k \in 0..MaxNamed} :
        \A i, j \in DOMAIN rs : rs[i].namedRangeId = rs[j].namedRangeId => i = j}

\* Variant: the scan does not stop at the first match.
LastNamedRangeId(ranges, name) ==
    IF \E i \in DOMAIN ranges : ranges[i].name = name
      THEN ranges[CHOOSE i \in DOMAIN ranges :
                     /\ ranges[i].name = name
                     /\ \A j \in DOMAIN ranges : ranges[j].name = name => j <= i].namedRangeId
      ELSE None

\* The loop over spreadsheet.get('namedRanges', []): the identifier of the
\* first range of the name, None when the loop ends without a match.
RECURSIVE FirstNamedRangeId(_, _)
FirstNamedRangeId(ranges, name) ==
    IF ranges = <<>> THEN None
    ELSE IF Head(ranges).name = name THEN Head(ranges).namedRangeId
    ELSE FirstNamedRangeId(Tail(ranges), name)

DeleteNamedRange(i) == [kind |-> "deleteNamedRange", namedRangeId |-> i]

\* The named ranges after the service applied deleteNamedRange.
RECURSIVE WithoutNamedRange(_, _)
WithoutNamedRange(ranges, i) ==
    IF ranges = <<>> THEN <<>>
    ELSE IF Head(ranges).namedRangeId = i THEN WithoutNamedRange(Tail(ranges), i)
    ELSE <<Head(ranges)>> \o WithoutNamedRange(Tail(ranges), i)

\* A serving session with a current document, the service holding docs d.
Session(d) ==
    /\ pc = "serving"
    /\ exit_status = -1
    /\ oauthPath = "/home/u/credentials.json"
    /\ tokenFile = Token(TRUE, FALSE, TRUE, "file")
    /\ creds = Token(TRUE, FALSE, TRUE, "file")
    /\ sheets_service = TRUE
    /\ current_spreadsheet_id = IdNames[1]
    /\ docs = d
    /\ authLog = <<AuthStep("load", TRUE), AuthStep("build", TRUE)>>
    /\ req = NoReq
    /\ calls = <<>>
    /\ result = NoResult

InitNamed ==
    \E rs \in NamedRangeLists :
       Session([d \in {ReadOnlyDoc, IdNames[1]} |->
                  [sheets |-> <<Sheet("Sheet1", 0)>>, namedRanges |-> rs]])

\* named_range_delete, the named ranges read from the document.
named_range_delete_ranges ==
    /\ Idle
    /\ UNCHANGED current_spreadsheet_id
    /\ \E e \in ValueIds, n \in RangeNames :
       LET id == ResolveDocumentId(e, current_spreadsheet_id)
           h  == "named_range_delete"
       IN
       IF MissingId(id)
         THEN Handler(h, e, <<n>>, <<>>, NoId, docs)
         ELSE \E f1 \in Outcome :
                 LET c1 == Call(docs, "spreadsheets.get", id, FALSE, <<>>, f1) IN
                 IF c1.outcome # "ok"
                   THEN Handler(h, e, <<n>>, <<c1>>, Raised(c1), docs)
                   ELSE LET named_range_id == FirstNamedRangeId(docs[id].namedRanges, n) IN
                        IF Falsy(named_range_id)
                          THEN Handler(h, e, <<n>>, <<c1>>,
                                       ValueError("Named range not found"), docs)
                          ELSE \E f2 \in Outcome :
                                  LET c2 == [doc |-> id,
                                             mutating |-> TRUE,
                                             op |-> "spreadsheets.batchUpdate",
                                             requests |-> <<DeleteNamedRange(named_range_id)>>,
                                             outcome |-> RemoteOutcome(docs, id, TRUE, <<>>, f2)]
                                  IN Handler(h, e, <<n>>, <<c1, c2>>, Raised(c2),
                                             IF c2.outcome = "ok"
                                               THEN [docs EXCEPT ![id].namedRanges =
                                                        WithoutNamedRange(@, named_range_id)]
                                               ELSE docs)

NextNamed == named_range_delete_ranges \/ respond

SpecNamed == InitNamed /\ [][NextNamed]_vars

\* A step in which named_range_delete got the document's metadata.
NamedStep ==
    /\ req = NoReq /\ req' # NoReq
    /\ calls' # <<>>
    /\ calls'[1].outcome = "ok"

\* The places of the ranges named n in the document the step read.
Matches(doc, n) == {i \in DOMAIN docs[doc].namedRanges : docs[doc].namedRanges[i].name = n}

\* C25: if no named range of the document's live metadata has exactly the
\* given name, named_range_delete raises a not-found error and issues no
\* mutating call; otherwise it issues exactly one deleteNamedRange, for the
\* identifier of the first named range with that name.
C25_DeletesFirstOfName ==
    [][ NamedStep =>
          LET doc == calls'[1].doc
              n   == req'.names[1]
          IN IF Matches(doc, n) = {}
               THEN /\ result' = ValueError("Named range not found")
                    /\ Mutating(calls') = {}
                    /\ docs' = docs
               ELSE /\ Mutating(calls') = {2}
                    /\ Len(calls') = 2
                    /\ calls'[2].doc = doc
                    /\ calls'[2].requests =
                          <<DeleteNamedRange(
                              docs[doc].namedRanges[
                                 CHOOSE i \in Matches(doc, n) :
                                    \A j \in Matches(doc, n) : i <= j].namedRangeId)>> ]_vars

C25_Witness ==
    /\ req # NoReq
    /\ Len(calls) = 2
    /\ calls[2].outcome = "ok"
    /\ result.kind = "ok"
    /\ Len(docs[calls[2].doc].namedRanges) = 1
    /\ docs[calls[2].doc].namedRanges[1].name = req.names[1]

----------------------------------------------------------------------------
\* One resolved identifier per action (specification Spec)

SlotTools == {"csv_import", "range_duplicate", "pivot_table_create"}

\* C26: csv_import, range_duplicate and pivot_table_create read the
\* current-document slot at most once, at their start, and use that one
\* resolved identifier for every remote call they make; whatever
\* spreadsheet_create does to the slot, no action addresses two documents.
C26_OneDocumentPerAction ==
    /\ [] ((req # NoReq /\ req.handler \in SlotTools) =>
              \A i, j \in DOMAIN calls : calls[i].doc = calls[j].doc)
    /\ [][ (req = NoReq /\ req' # NoReq /\ req'.handler \in SlotTools) =>
              LET id == ResolveDocumentId(req'.explicit, current_spreadsheet_id) IN
              /\ \A i \in DOMAIN calls' : calls'[i].doc = id
              /\ (calls' = <<>>) <=> MissingId(id)
              /\ UNCHANGED current_spreadsheet_id ]_vars

C26_Witness ==
    /\ req # NoReq
    /\ req.handler = "csv_import"
    /\ Falsy(req.explicit)
    /\ current_spreadsheet_id \in Created
    /\ Len(calls) = 3
    /\ \A i \in DOMAIN calls : calls[i].doc = current_spreadsheet_id
    /\ result.kind = "ok"

----------------------------------------------------------------------------
\* conditional_format_clear with the sheets' rules kept
\* (specification SpecRules)

MaxRules == 2

\* One entry of the reply's 'sheets' list under a `fields` mask: the
\* properties are there only when the mask selects them.
MaskedSheet(sheet, rules, fields) ==
    IF MaskHasProperties(fields)
      THEN [properties |-> [sheetId |-> sheet.sheetId], conditionalFormats |-> rules]
      ELSE [conditionalFormats |-> rules]

MaskedSheets(doc, fields) ==
    [i \in DOMAIN doc.sheets |->
        MaskedSheet(doc.sheets[i], doc.conditionalFormats[doc.sheets[i].sheetId], fields)]

DeleteRule(sheet_id) ==
    [kind |-> "deleteConditionalFormatRule", sheetId |-> sheet_id, index |-> 0]

\* The loop of lines 1237-1245 over the reply: sheet['properties'] is read
\* of every entry reached, one request is collected per rule of the entry
\* whose sheetId is sheet_id.
RECURSIVE RuleRequests(_, _)
RuleRequests(entries, sheet_id) ==
    IF entries = <<>> THEN [requests |-> <<>>, raised |-> FALSE]
    ELSE IF "properties" \notin DOMAIN Head(entries)
      THEN [requests |-> <<>>, raised |-> TRUE]
    ELSE LET rest == RuleRequests(Tail(entries), sheet_id)
             own  == IF Head(entries).properties.sheetId = sheet_id
                       THEN [i \in 1..Head(entries).conditionalFormats |-> DeleteRule(sheet_id)]
                       ELSE <<>>
         IN [requests |-> own \o rest.requests, raised |-> rest.raised]

\* The rules after the service applied the batch: each request removes the
\* rule at its index of its sheet.
RulesAfter(rules, requests) ==
    [s \in DOMAIN rules |->
        LET k == Cardinality({i \in DOMAIN requests : requests[i].sheetId = s})
        IN IF k <= rules[s] THEN rules[s] - k ELSE 0]

InitRules ==
    \E r \in [{0, 1} -> 0..MaxRules] :
       Session([d \in {ReadOnlyDoc, IdNames[1]} |->
                  [sheets |-> <<Sheet("Sheet1", 0), Sheet("Data", 1)>>,
                   conditionalFormats |-> r]])

\* conditional_format_clear, the rules read from the document.
conditional_format_clear_rules ==
    /\ Idle
    /\ UNCHANGED current_spreadsheet_id
    /\ \E e \in ValueIds, n \in SheetNames \cup {"Summary"} :
       LET id == ResolveDocumentId(e, current_spreadsheet_id)
           h  == "conditional_format_clear"
       IN
       IF MissingId(id)
         THEN Handler(h, e, <<n>>, <<>>, NoId, docs)
         ELSE \E f1 \in Outcome :
                 LET c1 == Call(docs, "spreadsheets.get", id, FALSE, <<>>, f1) IN
                 IF c1.outcome # "ok"
                   THEN Handler(h, e, <<n>>, <<c1>>, Raised(c1), docs)
                   ELSE \E f2 \in Outcome :
                    LET g == get_sheet_id_by_name(docs, id, n, f2)
                        collected == RuleRequests(MaskedSheets(docs[id], "sheets.conditionalFormats"),
                                                  g.value)
                    IN IF g.value = NoSheet
                         THEN Handler(h, e, <<n>>, <<c1, g.call>>, SheetNotFound, docs)
                       ELSE IF collected.raised
                         THEN Handler(h, e, <<n>>, <<c1, g.call>>, KeyError("properties"), docs)
                       ELSE IF collected.requests = <<>>
                         THEN Handler(h, e, <<n>>, <<c1, g.call>>, Ok(""), docs)
                       ELSE \E f3 \in Outcome :
                               LET c3 == [doc |-> id,
                                          mutating |-> TRUE,
                                          op |-> "spreadsheets.batchUpdate",
                                          requests |-> collected.requests,
                                          outcome |-> RemoteOutcome(docs, id, TRUE, <<>>, f3)]
                               IN Handler(h, e, <<n>>, <<c1, g.call, c3>>, Raised(c3),
                                          IF c3.outcome = "ok"
                                            THEN [docs EXCEPT ![id].conditionalFormats =
                                                     RulesAfter(@, collected.requests)]
                                            ELSE docs)

NextRules == conditional_format_clear_rules \/ respond

SpecRules == InitRules /\ [][NextRules]_vars

\* A step in which conditional_format_clear read the metadata and resolved
\* the sheet.
ClearStep ==
    /\ req = NoReq /\ req' # NoReq
    /\ Len(calls') >= 2
    /\ calls'[1].outcome = "ok"
    /\ calls'[2].outcome = "ok"
    /\ req'.names[1] \in Titles(docs[calls'[1].doc].sheets)

\* C27: conditional_format_clear on a sheet that has N rules at read time
\* issues one batch of exactly N deleteConditionalFormatRule requests, each
\* at index 0, which applied in order remove all N rules of that sheet and
\* none of another sheet; when N = 0 it issues no mutating call and still
\* reports success.
C27_ClearsAllRules ==
    [][ ClearStep =>
          LET doc == calls'[1].doc
              sid == FirstWithTitle(docs[doc].sheets, req'.names[1])
              N   == docs[doc].conditionalFormats[sid]
          IN IF N = 0
               THEN /\ Mutating(calls') = {}
                    /\ result' = Ok("")
                    /\ docs' = docs
               ELSE /\ Len(calls') = 3
                    /\ Mutating(calls') = {3}
                    /\ calls'[3].requests = [i \in 1..N |-> DeleteRule(sid)]
                    /\ result' = Raised(calls'[3])
                    /\ calls'[3].outcome = "ok" =>
                          docs' = [docs EXCEPT ![doc].conditionalFormats[sid] = 0] ]_vars

\* What the code does instead: once the sheet is resolved the action fails
\* on the first entry of the reply and no call changes a document.
ClearAlwaysRaises ==
    [][ ClearStep =>
          /\ result' = KeyError("properties")
          /\ Mutating(calls') = {}
          /\ docs' = docs ]_vars

ClearRaisedOnRules ==
    /\ req # NoReq
    /\ result = KeyError("properties")
    /\ Len(calls) = 2
    /\ docs[calls[1].doc].conditionalFormats[
          FirstWithTitle(docs[calls[1].doc].sheets, req.names[1])] = MaxRules

----------------------------------------------------------------------------
\* The empty string as spreadsheet_id (specification Spec)

ReadTools == {"spreadsheet_get_metadata", "values_get"}

\* C28: an explicit spreadsheet_id that is the empty string is treated as
\* not supplied: spreadsheet_get_metadata and values_get fall back to the
\* current-document slot if it is set, and otherwise fail with the
\* missing-document error without any remote call.
C28_EmptyIdIsNoId ==
    [][ (req = NoReq /\ req' # NoReq /\ req'.handler \in ReadTools /\ req'.explicit = "") =>
          IF current_spreadsheet_id # None
            THEN /\ Len(calls') = 1
                 /\ calls'[1].doc = current_spreadsheet_id
                 /\ result' = Raised(calls'[1])
            ELSE /\ calls' = <<>>
                 /\ result' = NoId ]_vars

C28_Witness ==
    /\ req # NoReq
    /\ req.handler = "values_get"
    /\ req.explicit = ""
    /\ current_spreadsheet_id \in Created
    /\ Len(calls) = 1
    /\ calls[1].doc = current_spreadsheet_id
    /\ result.kind = "ok"

----------------------------------------------------------------------------
\* range_duplicate with the cells kept (specification SpecDuplicate)

\* Ranges '<sheet>!A1:<cell in row `rows`, column `cols`>'.
DuplicateRanges == [sheet : SheetNames, rows : 1..MaxValueRows, cols : DOMAIN ValueColumns]

\* What the cells of Sheet1 hold at the start: nothing or a formula (the
\* cells of Data hold text).
SourceCells == {Stored("", "RAW"), Stored("=1+1", "USER_ENTERED")}

InitDuplicate ==
    \E src \in [GridCells -> SourceCells] :
       Session([d \in {ReadOnlyDoc, IdNames[1]} |->
                  [sheets |-> <<Sheet("Sheet1", 0), Sheet("Data", 1)>>,
                   cells  |-> [t \in SheetNames |->
                                 IF t = "Sheet1" THEN src
                                 ELSE [p \in GridCells |-> Stored("x", "RAW")]]]])

ValuesGet(id, r, f) ==
    [doc |-> id,
     mutating |-> FALSE,
     op |-> "values.get",
     requests |-> <<>>,
     outcome |-> RemoteOutcome(docs, id, FALSE, <<>>, f),
     range |-> r]

ValuesUpdate(id, r, a, input, f) ==
    [doc |-> id,
     mutating |-> TRUE,
     op |-> "values.update",
     requests |-> <<>>,
     outcome |-> IF f = "ok" /\ id # ReadOnlyDoc /\ ~Fits(a, r) THEN "400"
                 ELSE RemoteOutcome(docs, id, TRUE, <<>>, f),
     range |-> r,
     values |-> a,
     option |-> input]

DuplicateCall(e, r1, r2, cs, res, d) ==
    /\ req' = [handler |-> "range_duplicate",
               explicit |-> e,
               names |-> <<>>,
               target |-> r2,
               range |-> r1]
    /\ calls' = cs
    /\ result' = res
    /\ docs' = d
    /\ UNCHANGED <<authVars, current_spreadsheet_id>>

\* Variant: the write is issued whatever the read returned.
range_duplicate_cellsAlwaysWrites ==
    /\ Idle
    /\ \E e \in ValueIds, r1 \in DuplicateRanges, r2 \in {r \in DuplicateRanges : r.sheet = "Data"} :
       LET id == ResolveDocumentId(e, current_spreadsheet_id) IN
       IF MissingId(id)
         THEN DuplicateCall(e, r1, r2, <<>>, NoId, docs)
         ELSE \E f1 \in Outcome :
                 LET c1 == ValuesGet(id, r1, f1) IN
                 IF c1.outcome # "ok"
                   THEN DuplicateCall(e, r1, r2, <<c1>>, Raised(c1), docs)
                   ELSE LET values == ValuesOf(ValuesResponse(docs[id].cells[r1.sheet], r1,
                                                              "FORMATTED_VALUE"))
                        IN \E f2 \in Outcome :
                              LET c2 == ValuesUpdate(id, r2, values, "USER_ENTERED", f2) IN
                              DuplicateCall(e, r1, r2, <<c1, c2>>, Raised(c2),
                                 IF c2.outcome = "ok"
                                   THEN [docs EXCEPT ![id].cells[r2.sheet] =
                                            Written(@, values, "USER_ENTERED")]
                                   ELSE docs)

\* range_duplicate, the values read from the cells and written to them.
range_duplicate_cells ==
    /\ Idle
    /\ \E e \in ValueIds, r1 \in DuplicateRanges, r2 \in {r \in DuplicateRanges : r.sheet = "Data"} :
       LET id == ResolveDocumentId(e, current_spreadsheet_id) IN
       IF MissingId(id)
         THEN DuplicateCall(e, r1, r2, <<>>, NoId, docs)
         ELSE \E f1 \in Outcome :
                 LET c1 == ValuesGet(id, r1, f1) IN
                 IF c1.outcome # "ok"
                   THEN DuplicateCall(e, r1, r2, <<c1>>, Raised(c1), docs)
                   ELSE LET values == ValuesOf(ValuesResponse(docs[id].cells[r1.sheet], r1,
                                                              "FORMATTED_VALUE"))
                        IN IF values = <<>>
                             THEN DuplicateCall(e, r1, r2, <<c1>>, Ok(""), docs)
                             ELSE \E f2 \in Outcome :
                                     LET c2 == ValuesUpdate(id, r2, values, "USER_ENTERED", f2) IN
                                     DuplicateCall(e, r1, r2, <<c1, c2>>, Raised(c2),
                                        IF c2.outcome = "ok"
                                          THEN [docs EXCEPT ![id].cells[r2.sheet] =
                                                   Written(@, values, "USER_ENTERED")]
                                          ELSE docs)

NextDuplicate == range_duplicate_cells \/ respond

SpecDuplicate == InitDuplicate /\ [][NextDuplicate]_vars

\* A step in which range_duplicate's read of the source was answered.
DuplicateStep ==
    /\ req = NoReq /\ req' # NoReq
    /\ calls' # <<>>
    /\ calls'[1].outcome = "ok"

\* The rows the source range shows before the step: every row up to the
\* last one with a cell that is not empty.
SourceRows(doc, r) ==
    {i \in 1..r.rows :
        \E k \in i..r.rows, j \in 1..r.cols : docs[doc].cells[r.sheet][<<k, j>>].text # ""}

\* C29: range_duplicate issues one values read of the source range followed
\* by at most one values write: when the source range reads back empty it
\* issues no write, leaves the target untouched and still reports success;
\* otherwise it writes exactly the values read to the target range of the
\* same document.
C29_DuplicateReadsThenWrites ==
    [][ DuplicateStep =>
          LET doc == calls'[1].doc IN
          /\ calls'[1].op = "values.get"
          /\ calls'[1].range = req'.range
          /\ IF SourceRows(doc, req'.range) = {}
               THEN /\ Len(calls') = 1
                    /\ result' = Ok("")
                    /\ docs' = docs
               ELSE /\ Len(calls') = 2
                    /\ Mutating(calls') = {2}
                    /\ calls'[2].op = "values.update"
                    /\ calls'[2].doc = doc
                    /\ calls'[2].range = req'.target
                    /\ DOMAIN calls'[2].values = SourceRows(doc, req'.range)
                    /\ \A i \in DOMAIN calls'[2].values :
                          \A j \in DOMAIN calls'[2].values[i] :
                             calls'[2].values[i][j] =
                                Rendered(docs[doc].cells[req'.range.sheet][<<i, j>>],
                                         "FORMATTED_VALUE")
                    /\ \A i \in DOMAIN calls'[2].values :
                          \A j \in 1..req'.range.cols :
                             j \notin DOMAIN calls'[2].values[i] =>
                                docs[doc].cells[req'.range.sheet][<<i, j>>].text = ""
                    /\ result' = Raised(calls'[2]) ]_vars

C29_Witness ==
    /\ req # NoReq
    /\ req.handler = "range_duplicate"
    /\ Len(calls) = 2
    /\ calls[2].outcome = "ok"
    /\ calls[2].values = <<<<"2">>>>
    /\ req.range.sheet = "Sheet1"
    /\ docs[calls[2].doc].cells["Data"][<<1, 1>>] = Stored("2", "USER_ENTERED")

----------------------------------------------------------------------------
\* rows_hide and rows_unhide with the rows' hidden flags kept
\* (specification SpecRows)

\* Rows of a sheet.
MaxRows == 2

RowIndexes == 0..(MaxRows - 1)

\* What a caller may pass as start_row and end_row.
RowNumbers == 0..MaxRows

\* Variant: the row number is used as the index.
RowStartUntranslated(start_row) == start_row

\* `'startIndex': start_row - 1`
RowStart(start_row) == start_row - 1

\* `'endIndex': end_row`
RowEnd(end_row) == end_row

\* The updateDimensionProperties request of rows_hide and rows_unhide.
RowsRequest(id, startIndex, endIndex, hiddenByUser) ==
    [kind |-> "updateDimensionProperties",
     title |-> "",
     sheetId |-> id,
     targetSheetId |-> NoSheet,
     fields |-> "hiddenByUser",
     range |-> [sheetId |-> id,
                startIndex |-> startIndex,
                endIndex |-> endIndex,
                dimension |-> "ROWS"],
     hiddenByUser |-> hiddenByUser]

\* The service accepts a half-open interval of rows the sheet has.
ValidRows(r) ==
    /\ 0 <= r.range.startIndex
    /\ r.range.startIndex < r.range.endIndex
    /\ r.range.endIndex <= MaxRows

\* The flags after the service applied the request: the rows of the interval
\* on the request's sheet get the flag, every other row keeps its own.
HiddenAfter(hidden, r) ==
    [s \in DOMAIN hidden |->
        [i \in DOMAIN hidden[s] |->
            IF s = r.range.sheetId /\ r.range.startIndex <= i /\ i < r.range.endIndex
              THEN r.hiddenByUser
              ELSE hidden[s][i]]]

InitRows ==
    Session([d \in {ReadOnlyDoc, IdNames[1]} |->
               [sheets |-> <<Sheet("Sheet1", 0), Sheet("Data", 1)>>,
                hidden |-> [s \in {0, 1} |-> [i \in RowIndexes |-> FALSE]]]])

\* The course of the two handlers: document id, sheet id by name, one
\* batchUpdate with the one request.
RowsTool(h, hiddenByUser) ==
    \E sheet \in SheetNames, start_row \in RowNumbers, end_row \in RowNumbers :
       LET id == ResolveDocumentId(None, current_spreadsheet_id) IN
       /\ req' = [handler |-> h, explicit |-> None, names |-> <<sheet>>,
                  start |-> start_row, end |-> end_row]
       /\ UNCHANGED <<authVars, current_spreadsheet_id>>
       /\ IF MissingId(id)
            THEN calls' = <<>> /\ result' = NoId /\ docs' = docs
            ELSE \E f1 \in Outcome :
                    LET g == get_sheet_id_by_name(docs, id, sheet, f1) IN
                    IF g.value = NoSheet
                      THEN calls' = <<g.call>> /\ result' = SheetNotFound /\ docs' = docs
                      ELSE \E f2 \in Outcome :
                              LET r == RowsRequest(g.value, RowStart(start_row),
                                                   RowEnd(end_row), hiddenByUser)
                                  c == [doc |-> id,
                                        mutating |-> TRUE,
                                        op |-> "spreadsheets.batchUpdate",
                                        requests |-> <<r>>,
                                        outcome |-> IF f2 = "ok" /\ ~ValidRows(r) THEN "400"
                                                    ELSE RemoteOutcome(docs, id, TRUE, <<>>, f2)]
                              IN /\ calls' = <<g.call, c>>
                                 /\ result' = Raised(c)
                                 /\ docs' = IF c.outcome = "ok"
                                              THEN [docs EXCEPT ![id].hidden = HiddenAfter(@, r)]
                                              ELSE docs

rows_hide_flags == pc = "serving" /\ RowsTool("rows_hide", TRUE)

rows_unhide_flags == pc = "serving" /\ RowsTool("rows_unhide", FALSE)

NextRows == rows_hide_flags \/ rows_unhide_flags

SpecRows == InitRows /\ [][NextRows]_vars

\* The state shows a call of rows_hide or rows_unhide that the service applied.
RowsApplied(q, cs, res) ==
    /\ q # NoReq
    /\ Len(cs) = 2
    /\ res.kind = "ok"

\* The 1-based rows start_row..end_row, as indexes.
Interval(q) == {i \in RowIndexes : q.start <= i + 1 /\ i + 1 <= q.end}

\* A successful rows_hide followed at once by a successful rows_unhide with
\* the same arguments.
HideThenUnhide ==
    /\ RowsApplied(req, calls, result) /\ req.handler = "rows_hide"
    /\ RowsApplied(req', calls', result') /\ req'.handler = "rows_unhide"
    /\ req'.names = req.names /\ req'.start = req.start /\ req'.end = req.end

\* C30: rows_hide and rows_unhide translate the 1-based inclusive interval
\* [start_row, end_row] to the zero-based half-open [start_row - 1, end_row)
\* on the resolved sheet, so rows_hide followed by rows_unhide with the same
\* arguments affects exactly the same rows and sets their hidden flag to
\* false without touching any other row.
C30_HideUnhideSameRows ==
    [][ /\ RowsApplied(req', calls', result') =>
              LET doc == calls'[2].doc
                  sid == FirstWithTitle(docs[doc].sheets, req'.names[1])
              IN /\ calls'[2].requests[1].range =
                       [sheetId |-> sid, startIndex |-> req'.start - 1,
                        endIndex |-> req'.end, dimension |-> "ROWS"]
                 /\ \A d \in DOMAIN docs : \A s \in DOMAIN docs[d].hidden, i \in RowIndexes :
                       docs'[d].hidden[s][i] =
                          IF d = doc /\ s = sid /\ i \in Interval(req')
                            THEN req'.handler = "rows_hide"
                            ELSE docs[d].hidden[s][i]
        /\ HideThenUnhide =>
              /\ calls'[2].requests[1].range = calls[2].requests[1].range
              /\ \A d \in DOMAIN docs : \A s \in DOMAIN docs[d].hidden, i \in RowIndexes :
                    /\ docs[d].hidden[s][i] # docs'[d].hidden[s][i] =>
                          (i \in Interval(req) /\ s = calls[2].requests[1].sheetId)
                    /\ (d = calls[2].doc /\ s = calls[2].requests[1].sheetId
                          /\ i \in Interval(req)) =>
                          (docs[d].hidden[s][i] /\ ~docs'[d].hidden[s][i]) ]_vars

C30_Witness ==
    /\ RowsApplied(req, calls, result)
    /\ req.handler = "rows_unhide"
    /\ req.start = 2 /\ req.end = 2
    /\ req.names[1] = "Data"
    /\ docs[calls[2].doc].hidden[1] = [i \in RowIndexes |-> i = 0]

----------------------------------------------------------------------------
\* Properties of the whole server (specification SpecServer)

Count(s) == Cardinality({i \in DOMAIN authLog : authLog[i].step = s})

\* authenticate has returned: credential valid, service handles built.
Authenticated ==
    /\ pc = "serving"
    /\ sheets_service
    /\ creds.kind = "token"
    /\ creds.valid
    /\ authLog # <<>>
    /\ authLog[Len(authLog)] = AuthStep("build", TRUE)

\* C11: no handler is dispatched and no remote call is issued before
\* authenticate has returned successfully; the session is built once (one
\* load, one build, never again while serving); and once authenticate has
\* raised, or main has exited, the server never serves.
C11_AuthenticateOnceBeforeServing ==
    /\ [] /\ (req # NoReq \/ calls # <<>> \/ docs # <<>>) => Authenticated
          /\ pc = "serving" => Authenticated
          /\ Count("load") <= 1
          /\ Count("build") <= 1
    /\ [][ /\ pc \in {"auth_failed", "exited"} => pc' = pc
           /\ pc = "serving" => (pc' = "serving" /\ authLog' = authLog /\ creds' = creds)
           /\ req' \notin {req, NoReq} => Authenticated ]_vars

C11_Witness ==
    /\ Authenticated
    /\ Succeeded("consent")
    /\ req.handler = "spreadsheet_create"
    /\ result.kind = "ok"
    /\ docs # <<>>

\* C13: the slot is a single-value register: unset from construction until
\* the server serves, in every reachable state either unset or the identifier
\* returned by a create of this session that succeeded, and never unset again
\* once it has been set.
C13_SlotIsRegister ==
    /\ [] /\ pc # "serving" => current_spreadsheet_id = None
          /\ current_spreadsheet_id = None \/ current_spreadsheet_id \in Created
    /\ [][current_spreadsheet_id # None => current_spreadsheet_id' # None]_vars

C13_Witness ==
    /\ current_spreadsheet_id \in Created
    /\ req.handler = "sheet_delete"
    /\ req.explicit = None
    /\ result.kind = "HttpError"
====
